---- MODULE Spec2Model ----
(***************************************************************************)
(* Session Controller (POST /api/sessions), shared PostgreSQL store        *)
(* (sessions, token_jti, prune trigger), Kubernetes orchestrator and the   *)
(* WebSocket Gateway upgrade handler of k8s-cli-agents.                    *)
(*                                                                         *)
(* Every handler is split at its await points: one action per awaited call *)
(* and per outcome of that call (returned / threw).                        *)
(***************************************************************************)
EXTENDS Integers, Sequences, FiniteSets, TLC

(***************************************************************************)
(* Bounds of the model.                                                    *)
(***************************************************************************)
\* last instant of the model clock (abstract seconds)
MaxTime == 2
\* the discovery loop's maxAttempts (30 in the code), scaled down
MaxAttempts == 2
\* pods one job can own at the same time
MaxPods == 1
\* pods one job can own at the same time where discovery is studied on its own
MaxListed == 2
\* times the terminal page is loaded
MaxLoads == 2

(***************************************************************************)
(* Program constants.                                                      *)
(***************************************************************************)
\* SESSION_EXPIRY_SECONDS in model clock units (10 * 60 s in the code)
sessionExpirySeconds == 1
\* delayMs of the discovery loop, in model clock units (1000 ms in the code)
delayMs == 1
\* ten minutes in model clock units: the default of SESSION_EXPIRY_SECONDS
TenMinutes == 1
\* the runner pod's ttyd port
TtydPort == 7681
\* 'bearer,'.length, the argument of fromProto.slice(7)
BearerPrefixLen == 7

\* windowMs of both rate limiters, in model clock units (60 * 1000 ms in the code)
windowMs == 1
\* max of sessionLimiter and of globalLimiter
sessionMax == 5
globalMax == 100
\* retryAfter of sessionLimiter's 429 body
retryAfter == 60

\* absent values, one per type
None == "none"
NoRow == [absent |-> TRUE]
NoIp == <<>>
NoPod == 0
NoTime == -1
NoBody == [absent |-> TRUE]
NoToken == [absent |-> TRUE]
NoResponse == [absent |-> TRUE]
NoTarget == <<>>
\* a header or query parameter the request does not carry, and one it carries
Absent == [present |-> FALSE, value |-> <<>>]
Present(chars) == [present |-> TRUE, value |-> chars]

\* concurrent POST /api/sessions requests and WebSocket upgrade attempts
Reqs == {"r1", "r2"}
Ups == {"u1", "u2"}

\* uuidv4(): every call returns a value no other call returns; the value "sC"
\* of request "r3" has its first 13 characters in common with "sA"
UuidOf(r) == IF r = "r1" THEN "sA" ELSE IF r = "r3" THEN "sC" ELSE "sB"
SessionIds == {UuidOf(r) : r \in Reqs}
\* randomUUID() of createSessionJWT
JtiOf(r) == IF r = "r1" THEN "jA" ELSE "jB"
Jtis == {JtiOf(r) : r \in Reqs}
\* req.ip of the caller
ClientIdOf(r) == IF r = "r4" THEN "ip2" ELSE "ip1"
Callers == {"ip1", "ip2"}

PodNames == 1..MaxPods
Times == 0..MaxTime

VARIABLES
  now,        \* the clock shared by Date.now() and the store's now()
  sessions,   \* table sessions: session_id -> row | NoRow
  token_jti,  \* table token_jti: jti -> row | NoRow
  jobs,       \* Jobs the orchestrator holds
  pods,       \* job name -> names of its pods that expose status.podIP
  req,        \* POST /api/sessions handlers: pc and the locals body, sessionId,
              \* sessionExpires, podIP, podName (pod.metadata.name), i, minted
  res,        \* the response each of them sent
  up,         \* upgrade handlers: pc, proto (req.headers['sec-websocket-protocol']),
              \* query (url.searchParams.get('token')), sessionId, token, target,
              \* log (what it logged when it destroyed the socket)
  env,        \* process.env of the Controller: ALLOWED_CODE_DOMAINS, API_KEY
  limiter,    \* the stores of globalLimiter and sessionLimiter: key -> hits, resetTime
  get,        \* GET /api/sessions/:id handlers: pc, clientId, sessionId, and the
              \* response res each of them sent
  http,       \* the HTTP requests received: their Authorization header and the
              \* time they arrived at
  proc        \* the Controller process: its HTTP server, its database pool, its
              \* signal handlers and its exit

storeVars == <<sessions, token_jti>>
k8sVars == <<jobs, pods>>
apiVars == <<env, limiter, get, http, proc>>
vars == <<now, sessions, token_jti, jobs, pods, req, res, up, env, limiter, get, http, proc>>

(***************************************************************************)
(* Strings are sequences of characters. A request field of type string is  *)
(* [type, chars, pad]: the characters chars followed by pad more "a".      *)
(***************************************************************************)
StartsWith(s, p) == Len(s) >= Len(p) /\ SubSeq(s, 1, Len(p)) = p
EndsWith(s, p) == Len(s) >= Len(p) /\ SubSeq(s, Len(s) - Len(p) + 1, Len(s)) = p
Contains(s, p) == \E i \in 1..(Len(s) - Len(p) + 1) : SubSeq(s, i, i + Len(p) - 1) = p
Digits == {"0", "1", "2", "3", "4", "5", "6", "7", "8", "9"}
HexChars == Digits \cup {"a", "b", "c", "d", "e", "f", "A", "B", "C", "D", "E", "F"}

Str(chars, pad) == [type |-> "string", chars |-> chars, pad |-> pad]
Undefined == [type |-> "undefined", chars |-> <<>>, pad |-> 0]
StrLength(v) == Len(v.chars) + v.pad
\* JavaScript truthiness of a request field: a non-empty string, or an object
Truthy(v) == (v.type = "string" /\ StrLength(v) > 0) \/ v.type = "object"

MaxUrlLength == 2048
MaxCommandLength == 1000
MaxPromptLength == 10000
ChecksumLength == 64

ALLOWED_CODE_DOMAINS ==
  << <<"g", "i", "t", "h", "u", "b", ".", "c", "o", "m">>,
     <<"g", "i", "t", "l", "a", "b", ".", "c", "o", "m">>,
     <<"b", "i", "t", "b", "u", "c", "k", "e", "t", ".", "o", "r", "g">> >>

\* PRIVATE_IP_RANGES.some(pattern => pattern.test(hostname))
isPrivateIP(hostname) ==
  \/ StartsWith(hostname, <<"1", "0", ".">>)
  \/ /\ StartsWith(hostname, <<"1", "7", "2", ".">>)
     /\ Len(hostname) >= 7
     /\ \/ hostname[5] = "1" /\ hostname[6] \in {"6", "7", "8", "9"}
        \/ hostname[5] = "2" /\ hostname[6] \in Digits
        \/ hostname[5] = "3" /\ hostname[6] \in {"0", "1"}
     /\ hostname[7] = "."
  \/ StartsWith(hostname, <<"1", "9", "2", ".", "1", "6", "8", ".">>)
  \/ StartsWith(hostname, <<"1", "2", "7", ".">>)
  \/ StartsWith(hostname, <<"1", "6", "9", ".", "2", "5", "4", ".">>)
  \/ hostname = <<":", ":", "1">>
  \/ StartsWith(hostname, <<"f", "e", "8", "0", ":">>)
  \/ StartsWith(hostname, <<"f", "c", "0", "0", ":">>)

\* process.env.ALLOWED_CODE_DOMAINS ? process.env.ALLOWED_CODE_DOMAINS.split(',')
\* .map(d => d.trim()) : [the default list]; env holds the list of the trimmed
\* pieces, <<>> for an unset or empty variable
AllowedCodeDomains ==
  IF env.ALLOWED_CODE_DOMAINS = <<>> THEN ALLOWED_CODE_DOMAINS ELSE env.ALLOWED_CODE_DOMAINS

\* a suffix match without the dot in front of the base domain
isAllowedNoDot(hostname) ==
  \E k \in 1..Len(AllowedCodeDomains) :
    LET domain == AllowedCodeDomains[k] IN
      IF StartsWith(domain, <<"*", ".">>)
      THEN EndsWith(hostname, SubSeq(domain, 3, Len(domain)))
      ELSE hostname = domain

\* ALLOWED_CODE_DOMAINS.some(domain => ...)
isAllowed(hostname) ==
  \E k \in 1..Len(AllowedCodeDomains) :
    LET domain == AllowedCodeDomains[k] IN
      IF StartsWith(domain, <<"*", ".">>)
      THEN LET baseDomain == SubSeq(domain, 3, Len(domain)) IN
             hostname = baseDomain \/ EndsWith(hostname, <<".">> \o baseDomain)
      ELSE hostname = domain

Valid == [valid |-> TRUE, error |-> None]
Invalid(e) == [valid |-> FALSE, error |-> e]

\* code_url is [type, chars, pad, url]: url is what new URL(code_url) returns
\* ([protocol, hostname]); url.ok is FALSE when it throws
validateCodeUrl(code_url) ==
  IF code_url.type # "string" THEN Invalid("code_url must be a string")
  ELSE IF StrLength(code_url) > MaxUrlLength THEN Invalid("code_url exceeds maximum length")
  ELSE IF ~code_url.url.ok THEN Invalid("Invalid URL format")
  ELSE IF code_url.url.protocol \notin {"http:", "https:"}
       THEN Invalid("Only HTTP and HTTPS protocols are allowed")
  ELSE IF isPrivateIP(code_url.url.hostname)
       THEN Invalid("Private IP addresses are not allowed")
  ELSE IF ~isAllowed(code_url.url.hostname) THEN Invalid("Domain is not in the allowlist")
  ELSE Valid

\* the list without its /\$\{/ entry
dangerousPatternsShort == { <<"$", "(">>, <<"backtick">>, <<"<", "(">>, <<">", "(">> }

\* the backtick character is written "backtick"
dangerousPatterns == { <<"$", "(">>, <<"backtick">>, <<"$", "{">>, <<"<", "(">>, <<">", "(">> }

\* the length check with >= in place of >
validateCommandExclusive(command) ==
  IF command.type # "string" THEN Invalid("command must be a string")
  ELSE IF StrLength(command) = 0 THEN Invalid("command cannot be empty")
  ELSE IF StrLength(command) >= MaxCommandLength THEN Invalid("command exceeds maximum length")
  ELSE IF \E pattern \in dangerousPatterns : Contains(command.chars, pattern)
       THEN Invalid("command contains potentially dangerous patterns")
  ELSE Valid

validateCommand(command) ==
  IF command.type # "string" THEN Invalid("command must be a string")
  ELSE IF StrLength(command) = 0 THEN Invalid("command cannot be empty")
  ELSE IF StrLength(command) > MaxCommandLength THEN Invalid("command exceeds maximum length")
  ELSE IF \E pattern \in dangerousPatterns : Contains(command.chars, pattern)
       THEN Invalid("command contains potentially dangerous patterns")
  ELSE Valid

validateChecksum(checksum) ==
  IF ~Truthy(checksum) /\ checksum.type \in {"string", "undefined"} THEN Valid
  ELSE IF checksum.type # "string" THEN Invalid("checksum must be a string")
  ELSE IF ~(StrLength(checksum) = ChecksumLength
            /\ \A k \in 1..Len(checksum.chars) : checksum.chars[k] \in HexChars)
       THEN Invalid("Invalid SHA-256 checksum format")
  ELSE Valid

validatePrompt(prompt) ==
  IF ~Truthy(prompt) /\ prompt.type \in {"string", "undefined"} THEN Valid
  ELSE IF prompt.type # "string" THEN Invalid("prompt must be a string")
  ELSE IF StrLength(prompt) > MaxPromptLength THEN Invalid("prompt exceeds maximum length")
  ELSE Valid

\* 'npm run build && node dist/index.js run'
DefaultCommand ==
  Str(<<"n", "p", "m", " ", "r", "u", "n", " ", "b", "u", "i", "l", "d", " ", "&", "&", " ",
        "n", "o", "d", "e", " ", "d", "i", "s", "t", "/", "i", "n", "d", "e", "x", ".", "j",
        "s", " ", "r", "u", "n">>, 0)
\* command || 'npm run build && node dist/index.js run'
CommandOrDefault(command) == IF Truthy(command) THEN command ELSE DefaultCommand

\* the validation block of POST /api/sessions: the first failing check answers
Validation(b) ==
  IF ~validateCodeUrl(b.code_url).valid THEN validateCodeUrl(b.code_url)
  ELSE IF ~validateChecksum(b.code_checksum_sha256).valid
       THEN validateChecksum(b.code_checksum_sha256)
  ELSE IF ~validateCommand(CommandOrDefault(b.command)).valid
       THEN validateCommand(CommandOrDefault(b.command))
  ELSE validatePrompt(b.prompt)

(***************************************************************************)
(* Request bodies the callers send.                                        *)
(***************************************************************************)
Url(length, protocol, hostname) ==
  [type |-> "string", chars |-> <<>>, pad |-> length,
   url |-> [ok |-> TRUE, protocol |-> protocol, hostname |-> hostname]]
GithubUrl == Url(30, "https:", <<"g", "i", "t", "h", "u", "b", ".", "c", "o", "m">>)
MetadataUrl ==
  Url(31, "http:", <<"1", "6", "9", ".", "2", "5", "4", ".", "1", "6", "9", ".", "2", "5", "4">>)
NpmTest == Str(<<"n", "p", "m", " ", "t", "e", "s", "t">>, 0)
NpmInject ==
  Str(<<"n", "p", "m", " ", "s", "t", "a", "r", "t", ";", " ", "$", "(", "r", "m", " ", "-",
        "r", "f", " ", "/", ")">>, 0)
GoodBody ==
  [code_url |-> GithubUrl, code_checksum_sha256 |-> Undefined, command |-> NpmTest,
   prompt |-> Undefined]
Bodies ==
  { GoodBody,
    [GoodBody EXCEPT !.code_url = MetadataUrl],
    [GoodBody EXCEPT !.command = NpmInject],
    [GoodBody EXCEPT !.code_checksum_sha256 = Str(<<"x", "y", "z">>, 0)],
    [GoodBody EXCEPT !.prompt = Str(<<>>, MaxPromptLength + 1)] }

(***************************************************************************)
(* Shared store: tables sessions and token_jti, and the prune trigger.     *)
(***************************************************************************)
\* a purge that also takes the rows expiring at this very instant
PruneTableInclusive(table, t) ==
  [k \in DOMAIN table |-> IF table[k] # NoRow /\ table[k].expires_at <= t THEN NoRow ELSE table[k]]

\* DELETE FROM <table> WHERE expires_at < now()
PruneTable(table, t) ==
  [k \in DOMAIN table |-> IF table[k] # NoRow /\ table[k].expires_at < t THEN NoRow ELSE table[k]]

\* prune_expired_rows(), fired AFTER INSERT OR UPDATE ... FOR EACH STATEMENT
PruneExpiredRows(newSessions, newTokenJti) ==
  /\ sessions' = PruneTable(newSessions, now)
  /\ token_jti' = PruneTable(newTokenJti, now)

\* the sessions table without UNIQUE on job_name
SessionInsertableNoUnique(sid, jobName) == sessions[sid] = NoRow

\* job_name TEXT NOT NULL UNIQUE, session_id TEXT PRIMARY KEY
SessionInsertable(sid, jobName) ==
  /\ sessions[sid] = NoRow
  /\ \A s \in DOMAIN sessions : sessions[s] # NoRow => sessions[s].job_name # jobName

(***************************************************************************)
(* Capability tokens.                                                      *)
(***************************************************************************)
\* a key set that publishes the key under another kid than the tokens carry
getJWKSOtherKid == { [kid |-> "2", alg |-> "RS256", key |-> "controller"] }

\* the key set served at /.well-known/jwks.json
getJWKS == { [kid |-> "1", alg |-> "RS256", key |-> "controller"] }

\* new SignJWT({ sid }) ... .sign(key)
createSessionJWT(sub, sid, aud, expSec, jti, t) ==
  [sub |-> sub, sid |-> sid, aud |-> aud, jti |-> jti, iat |-> t, exp |-> t + expSec,
   alg |-> "RS256", kid |-> "1", key |-> "controller"]

(***************************************************************************)
(* Orchestrator.                                                           *)
(***************************************************************************)
\* sessionId.slice(0,13), named by the first uuid that starts with it
Slice13(sid) == IF sid = "sC" THEN "sA" ELSE sid
\* `wscli-${sessionId.slice(0,13)}`
jobNameOf(sid) == <<"wscli-", Slice13(sid)>>
JobNames == {jobNameOf(s) : s \in SessionIds}
\* status.podIP of pod p of job j
PodIpOf(j, p) == <<"ip", j[2], p>>

\* ttlSecondsAfterFinished: the Job has finished and the orchestrator removes
\* it with its pods
JobTtlElapsed(j) ==
  /\ \E job \in jobs : job.name = j
  /\ jobs' = {job \in jobs : job.name # j}
  /\ pods' = [pods EXCEPT ![j] = {}]
  /\ UNCHANGED <<now, storeVars, req, res, up, apiVars>>

\* a pod of an existing Job gets its IP
PodRuns(j, p) ==
  /\ \E job \in jobs : job.name = j
  /\ p \notin pods[j]
  /\ pods' = [pods EXCEPT ![j] = @ \cup {p}]
  /\ UNCHANGED <<now, jobs, storeVars, req, res, up, apiVars>>

\* time passes
Tick ==
  /\ now < MaxTime
  /\ now' = now + 1
  /\ UNCHANGED <<storeVars, k8sVars, req, res, up, apiVars>>

(***************************************************************************)
(* Controller: POST /api/sessions                                          *)
(***************************************************************************)
\* warned: the calls whose failure the catch of lines 262-264 has logged
IdleReq ==
  [pc |-> "idle", body |-> NoBody, sessionId |-> None, sessionExpires |-> NoTime,
   podIP |-> NoIp, podName |-> NoPod, i |-> 0, minted |-> NoToken, warned |-> {}]
\* a handler that has answered and returned: its locals are gone
DoneReq == [IdleReq EXCEPT !.pc = "done"]

\* res.headersSent
headersSent(response) == response # NoResponse
\* the responses written so far
Sends(response) == IF headersSent(response) THEN response.sends ELSE 0
\* res.status(status).json(payload) on a response object: the response as the
\* client has it, and the number of times one was written
Send(response, status, payload) ==
  [status |-> status, sends |-> Sends(response) + 1] @@ payload

Respond(r, status, payload) ==
  /\ res' = [res EXCEPT ![r] = Send(res[r], status, payload)]
  /\ req' = [req EXCEPT ![r] = DoneReq]

\* asyncHandler's catch, lines 13-29 of asyncHandler.ts, up to next(error)
asyncHandlerCatch(response, body) ==
  IF ~headersSent(response) THEN Send(response, 500, body) ELSE response

\* a global error handler that answers whether or not a response was sent
globalErrorHandlerUnguarded(response, body) == Send(response, 500, body)

\* the global error handler of lines 321-327, reached through next(error)
globalErrorHandler(response, body) ==
  IF ~headersSent(response) THEN Send(response, 500, body) ELSE response

\* the handler threw: asyncHandler's catch, then the global error handler
RespondInternalError(r) ==
  LET body == [error |-> "Internal server error", sessionId |-> None, token |-> NoToken] IN
    /\ res' = [res EXCEPT ![r] = globalErrorHandler(asyncHandlerCatch(res[r], body), body)]
    /\ req' = [req EXCEPT ![r] = DoneReq]

\* a numeric environment variable: not set, or set to the decimal string of n
Unset == [set |-> FALSE, n |-> 0]
SetTo(n) == [set |-> TRUE, n |-> n]

\* line 53: Number(process.env.SESSION_EXPIRY_SECONDS || 10 * 60)
ConfiguredExpirySeconds ==
  IF env.SESSION_EXPIRY_SECONDS.set THEN env.SESSION_EXPIRY_SECONDS.n ELSE sessionExpirySeconds

\* the return of lines 150-168 left out: the handler answers 400 and goes on
CreateSessionStartNoReturn(r, b) ==
  /\ req[r].pc = "idle"
  /\ req' = [req EXCEPT ![r] =
       [@ EXCEPT !.pc = "createJob", !.body = b, !.sessionId = UuidOf(r),
                 !.sessionExpires = now + ConfiguredExpirySeconds]]
  /\ IF ~Validation(b).valid
     THEN res' = [res EXCEPT ![r] = [status |-> 400, sends |-> 1, error |-> Validation(b).error,
                                     sessionId |-> None, token |-> NoToken]]
     ELSE UNCHANGED res
  /\ UNCHANGED <<now, storeVars, k8sVars, up, apiVars>>

\* lines 146-172: the request arrives, is validated, and the ids are drawn
CreateSessionStart(r, b) ==
  /\ req[r].pc = "idle"
  /\ IF ~Validation(b).valid
     THEN Respond(r, 400, [error |-> Validation(b).error, sessionId |-> None,
                           token |-> NoToken])
     ELSE /\ req' = [req EXCEPT ![r] =
               [@ EXCEPT !.pc = "createJob", !.body = b, !.sessionId = UuidOf(r),
                         !.sessionExpires = now + ConfiguredExpirySeconds]]
          /\ UNCHANGED res
  /\ UNCHANGED <<now, storeVars, k8sVars, up, apiVars>>

\* the Job object of lines 174-229
JobOf(l) ==
  [name |-> jobNameOf(l.sessionId), session |-> l.sessionId,
   CODE_URL |-> l.body.code_url, COMMAND |-> CommandOrDefault(l.body.command),
   status |-> "Pending"]

(***************************************************************************)
(* Runner: entrypoint.sh, the boot script of the Job's container.          *)
(***************************************************************************)
\* ${#cmd} -gt 500
RunnerMaxCommandLength == 500

\* line 11 of entrypoint.sh tests the command against three patterns. The
\* second test reads [[ "$cmd" =~ "]] in the file, which bash refuses with
\* "syntax error in conditional expression" (exit status 2) when it reads the
\* function; with a quoted backtick in that place the script parses. Both
\* readings of the line are kept.
Line11Readings == {"as stored", "backtick"}

\* validate_command of lines 7-21 with the backtick reading of line 11: its
\* return status
validate_command(cmd) ==
  IF \/ Contains(cmd.chars, <<"$", "(">>)
     \/ Contains(cmd.chars, <<"backtick">>)
     \/ Contains(cmd.chars, <<"$", "{">>)
  THEN 1
  ELSE IF StrLength(cmd) > RunnerMaxCommandLength THEN 1
  ELSE 0

\* lines 1-28 with COMMAND in the environment: the status the script exits
\* with before it fetches the code, or "Running" when it gets that far
entrypoint(COMMAND, reading) ==
  IF reading = "as stored" THEN "Exit 2"
  ELSE IF StrLength(COMMAND) > 0 /\ validate_command(COMMAND) # 0 THEN "Exit 1"
  ELSE "Running"

\* the container of Job j starts and runs entrypoint.sh
RunnerBoot(j, reading) ==
  /\ \E job \in jobs :
       /\ job.name = j
       /\ job.status = "Pending"
       /\ jobs' = (jobs \ {job}) \cup {[job EXCEPT !.status = entrypoint(job.COMMAND, reading)]}
  /\ UNCHANGED <<now, storeVars, pods, req, res, up, apiVars>>

\* line 231: await batch.createNamespacedJob(namespace, job) returned
CreateJobOk(r) ==
  /\ req[r].pc = "createJob"
  /\ \A job \in jobs : job.name # jobNameOf(req[r].sessionId)
  /\ jobs' = jobs \cup {JobOf(req[r])}
  /\ req' = [req EXCEPT ![r].pc = "insertSession"]
  /\ UNCHANGED <<now, storeVars, pods, res, up, apiVars>>

\* line 231 threw (API error, or a Job of that name exists)
CreateJobThrow(r) ==
  /\ req[r].pc = "createJob"
  /\ RespondInternalError(r)
  /\ UNCHANGED <<now, storeVars, k8sVars, up, apiVars>>

\* the row of INSERT INTO sessions (session_id, owner_user_id, job_name, expires_at)
SessionRow(r, l) ==
  [owner_user_id |-> ClientIdOf(r), job_name |-> jobNameOf(l.sessionId),
   pod_name |-> NoPod, pod_ip |-> NoIp, created_at |-> now, expires_at |-> l.sessionExpires]

\* lines 232-235: INSERT INTO sessions returned
InsertSessionOk(r) ==
  /\ req[r].pc = "insertSession"
  /\ SessionInsertable(req[r].sessionId, jobNameOf(req[r].sessionId))
  /\ PruneExpiredRows([sessions EXCEPT ![req[r].sessionId] = SessionRow(r, req[r])],
                      token_jti)
  /\ req' = [req EXCEPT ![r].pc = "listPods"]
  /\ UNCHANGED <<now, k8sVars, res, up, apiVars>>

\* lines 232-235 threw
InsertSessionThrow(r) ==
  /\ req[r].pc = "insertSession"
  /\ RespondInternalError(r)
  /\ UNCHANGED <<now, storeVars, k8sVars, up, apiVars>>

\* the loop of line 242 without its i++: the counter never reaches maxAttempts
NextAttemptNoIncrement(r, logged) ==
  /\ req' = [req EXCEPT ![r].pc = "listPods", ![r].warned = @ \cup logged]
  /\ UNCHANGED res

\* lines 266-275: the sleep, i++, the loop test and the check after the loop;
\* logged is what the catch of lines 262-264 logged in this iteration
NextAttempt(r, logged) ==
  IF req[r].i + 1 < MaxAttempts
  THEN /\ req' = [req EXCEPT ![r].i = @ + 1, ![r].pc = "listPods",
                             ![r].warned = @ \cup logged]
       /\ UNCHANGED res
  ELSE IF req[r].podIP = NoIp
  THEN Respond(r, 500, [error |-> "Failed to start session. Please try again.",
                        sessionId |-> req[r].sessionId, token |-> NoToken])
  ELSE /\ req' = [req EXCEPT ![r].i = @ + 1, ![r].pc = "mint", ![r].warned = @ \cup logged]
       /\ UNCHANGED res

\* lines 244-255: listNamespacedPod returned items, the first of which with an
\* IP is pod p
ListPodsFound(r, p) ==
  /\ req[r].pc = "listPods"
  /\ p \in pods[jobNameOf(req[r].sessionId)]
  /\ req' = [req EXCEPT ![r].podIP = PodIpOf(jobNameOf(req[r].sessionId), p),
                        ![r].podName = p, ![r].pc = "updateSession"]
  /\ UNCHANGED <<now, storeVars, k8sVars, res, up, apiVars>>

\* a handler that removes the sessions row when it gives up
ListPodsNoneDeleting(r) ==
  /\ req[r].pc = "listPods"
  /\ pods[jobNameOf(req[r].sessionId)] = {}
  /\ NextAttempt(r, {})
  /\ IF req[r].i + 1 >= MaxAttempts /\ req[r].podIP = NoIp
     THEN sessions' = [sessions EXCEPT ![req[r].sessionId] = NoRow] /\ UNCHANGED token_jti
     ELSE UNCHANGED storeVars
  /\ UNCHANGED <<now, k8sVars, up, apiVars>>

\* lines 244-254, 266: listNamespacedPod returned no pod with an IP
ListPodsNone(r) ==
  /\ req[r].pc = "listPods"
  /\ pods[jobNameOf(req[r].sessionId)] = {}
  /\ NextAttempt(r, {})
  /\ UNCHANGED <<now, storeVars, k8sVars, up, apiVars>>

\* lines 262-266: listNamespacedPod threw, the catch logs it
ListPodsThrow(r) ==
  /\ req[r].pc = "listPods"
  /\ NextAttempt(r, {"listNamespacedPod"})
  /\ UNCHANGED <<now, storeVars, k8sVars, up, apiVars>>

\* the UPDATE without its WHERE clause
UpdatedSessionsUnfiltered(l) ==
  [s \in DOMAIN sessions |->
     IF sessions[s] = NoRow THEN NoRow
     ELSE [sessions[s] EXCEPT !.pod_ip = l.podIP, !.pod_name = l.podName]]

\* UPDATE sessions SET pod_ip = $1, pod_name = $2 WHERE session_id = $3
UpdatedSessions(l) ==
  IF sessions[l.sessionId] = NoRow THEN sessions
  ELSE [sessions EXCEPT ![l.sessionId].pod_ip = l.podIP, ![l.sessionId].pod_name = l.podName]

\* lines 256-260: UPDATE sessions returned; break
UpdateSessionOk(r) ==
  /\ req[r].pc = "updateSession"
  /\ PruneExpiredRows(UpdatedSessions(req[r]), token_jti)
  /\ req' = [req EXCEPT ![r].pc = "mint"]
  /\ UNCHANGED <<now, k8sVars, res, up, apiVars>>

\* lines 256-266: UPDATE sessions threw inside the try, the catch logs it
UpdateSessionThrow(r) ==
  /\ req[r].pc = "updateSession"
  /\ NextAttempt(r, {"UPDATE sessions"})
  /\ UNCHANGED <<now, storeVars, k8sVars, up, apiVars>>

\* lines 278-283: createSessionJWT returned
MintOk(r) ==
  /\ req[r].pc = "mint"
  /\ req' = [req EXCEPT ![r].pc = "insertJti", ![r].minted =
       [jti |-> JtiOf(r),
        token |-> createSessionJWT(ClientIdOf(r), req[r].sessionId, "ws",
                                   ConfiguredExpirySeconds, JtiOf(r), now)]]
  /\ UNCHANGED <<now, storeVars, k8sVars, res, up, apiVars>>

\* lines 278-283: createSessionJWT threw (the key file could not be read)
MintThrow(r) ==
  /\ req[r].pc = "mint"
  /\ RespondInternalError(r)
  /\ UNCHANGED <<now, storeVars, k8sVars, up, apiVars>>

\* lines 285-290: INSERT INTO token_jti returned; res.json(...)
InsertJtiOk(r) ==
  /\ req[r].pc = "insertJti"
  /\ token_jti[req[r].minted.jti] = NoRow
  /\ PruneExpiredRows(
       sessions,
       [token_jti EXCEPT ![req[r].minted.jti] =
          [session_id |-> req[r].sessionId, expires_at |-> req[r].sessionExpires]])
  /\ Respond(r, 200, [error |-> None, sessionId |-> req[r].sessionId,
                      token |-> req[r].minted.token])
  /\ UNCHANGED <<now, k8sVars, up, apiVars>>

\* lines 285-288 threw
InsertJtiThrow(r) ==
  /\ req[r].pc = "insertJti"
  /\ RespondInternalError(r)
  /\ UNCHANGED <<now, storeVars, k8sVars, up, apiVars>>

(***************************************************************************)
(* Compact JWTs. A token travels as one character-like symbol of a string: *)
(* its compact serialisation, which holds no comma and no blank.           *)
(***************************************************************************)
Keys == {"controller", "attacker"}
\* every token the Controller can sign, and the same claims signed by others
TokenUniverse ==
  {[createSessionJWT(ClientIdOf(r), s, "ws", sessionExpirySeconds, j, t) EXCEPT !.key = k] :
     r \in Reqs, s \in SessionIds, j \in Jtis, t \in Times, k \in Keys}
Compact(jwt) == ToString(jwt)
CompactForms == {Compact(jwt) : jwt \in TokenUniverse}
DecodeTable == [str \in CompactForms |-> CHOOSE jwt \in TokenUniverse : Compact(jwt) = str]
\* strings that are no JWT at all
Garbage == {"T1", "T2"}
IsJwt(str) == str \in CompactForms
JwtDecode(str) == DecodeTable[str]

NoClaims == [invalid |-> TRUE]

\* decodeJwt in place of jwtVerify: the payload is read, the signature is not
\* checked
verifySessionJWTUnsigned(tok, aud, jwks, t) ==
  IF Len(tok) # 1 \/ ~IsJwt(tok[1]) THEN NoClaims
  ELSE LET jwt == JwtDecode(tok[1]) IN
    IF jwt.aud = aud /\ jwt.exp > t THEN jwt ELSE NoClaims

\* jwtVerify(token, JWKS, { audience: aud }) at time t: the payload, or
\* NoClaims when it throws
verifySessionJWT(tok, aud, jwks, t) ==
  IF Len(tok) # 1 \/ ~IsJwt(tok[1]) THEN NoClaims
  ELSE LET jwt == JwtDecode(tok[1]) IN
    IF /\ \E k \in jwks : k.kid = jwt.kid /\ k.alg = jwt.alg /\ k.key = jwt.key
       /\ jwt.aud = aud
       /\ jwt.exp > t
    THEN jwt
    ELSE NoClaims

(***************************************************************************)
(* Gateway: app.on('upgrade', ...)                                         *)
(***************************************************************************)
\* s.split(','): the pieces between the commas
RECURSIVE Split(_)
Split(s) ==
  IF \A k \in 1..Len(s) : s[k] # ","
  THEN <<s>>
  ELSE LET k == CHOOSE i \in 1..Len(s) : s[i] = "," /\ \A j \in 1..(i - 1) : s[j] # ","
       IN <<SubSeq(s, 1, k - 1)>> \o Split(SubSeq(s, k + 1, Len(s)))

\* s.trim()
RECURSIVE Trim(_)
Trim(s) ==
  IF s # <<>> /\ s[1] = " " THEN Trim(Tail(s))
  ELSE IF s # <<>> /\ s[Len(s)] = " " THEN Trim(SubSeq(s, 1, Len(s) - 1))
  ELSE s

Bearer == <<"b", "e", "a", "r", "e", "r", ",">>

\* proto?.split(',').map(s=>s.trim()).find(s=>s.startsWith('bearer,')): the
\* piece found, or Absent for undefined
fromProtoOf(p) ==
  IF ~p.present THEN Absent
  ELSE LET parts == [k \in 1..Len(Split(p.value)) |-> Trim(Split(p.value)[k])] IN
    IF \E k \in 1..Len(parts) : StartsWith(parts[k], Bearer)
    THEN Present(parts[CHOOSE k \in 1..Len(parts) :
                         /\ StartsWith(parts[k], Bearer)
                         /\ \A j \in 1..(k - 1) : ~StartsWith(parts[j], Bearer)])
    ELSE Absent

\* fromProto?.slice(7) || url.searchParams.get('token') || ''
ExtractToken(p, q) ==
  LET fromProto == fromProtoOf(p) IN
    IF fromProto.present /\ Len(fromProto.value) > BearerPrefixLen
    THEN SubSeq(fromProto.value, BearerPrefixLen + 1, Len(fromProto.value))
    ELSE IF q.present /\ q.value # <<>> THEN q.value
    ELSE <<>>

\* the sid check left out
SidMismatchIgnored(claims, sid) == FALSE

\* claims.sid !== sessionId
SidMismatch(claims, sid) == claims.sid # sid

\* sent: what the handler has written to the client's socket; fetches: the
\* requests for the key set it has sent to the Controller
IdleUp ==
  [pc |-> "idle", proto |-> Absent, query |-> Absent, sessionId |-> None, token |-> <<>>,
   target |-> NoTarget, log |-> None, sent |-> <<>>, fetches |-> 0]

\* createRemoteJWKSet(new URL(jwksUrl)), line 4 of the Gateway's
\* verifySessionJWT: a new key set object, no key fetched yet
createRemoteJWKSet == [cached |-> {}]

\* jwtVerify(token, JWKS, ...): a token that parses as a JWS has its key looked
\* up by kid in JWKS, which fetches the key set when it holds no such key
FetchesOf(tok, JWKS) ==
  IF Len(tok) = 1 /\ IsJwt(tok[1]) /\ JwtDecode(tok[1]).kid \notin JWKS.cached
  THEN 1 ELSE 0

\* a handler that tells the client why it closes the socket
DestroyEchoing(u, msg) ==
  up' = [up EXCEPT ![u].pc = "destroyed", ![u].log = msg, ![u].sent = <<msg>>]

\* log.warn(...); return socket.destroy()
Destroy(u, msg) == up' = [up EXCEPT ![u].pc = "destroyed", ![u].log = msg]

ClaimsOf(l) == JwtDecode(l.token[1])

\* lines 199-216: the upgrade request arrives on path /ws/<path> (None: the
\* path does not match), the token is extracted, verifySessionJWT is awaited
UpgradeReceive(u, path, p, q) ==
  /\ up[u].pc = "idle"
  /\ up' = [up EXCEPT ![u] =
       IF path = None
       THEN [@ EXCEPT !.proto = p, !.query = q, !.pc = "destroyed", !.log = "invalid ws path"]
       ELSE IF ExtractToken(p, q) = <<>>
       THEN [@ EXCEPT !.proto = p, !.query = q, !.sessionId = path, !.pc = "destroyed",
                      !.log = "missing token"]
       ELSE [@ EXCEPT !.proto = p, !.query = q, !.sessionId = path,
                      !.token = ExtractToken(p, q), !.pc = "verify",
                      !.fetches = FetchesOf(ExtractToken(p, q), createRemoteJWKSet)]]
  /\ UNCHANGED <<now, storeVars, k8sVars, req, res, apiVars>>

\* the DELETE of line 229 moved in front of the sid check
UpgradeVerifyConsuming(u) ==
  /\ up[u].pc = "verify"
  /\ LET claims == verifySessionJWT(up[u].token, "ws", getJWKS, now) IN
       IF claims = NoClaims THEN Destroy(u, "upgrade error") /\ UNCHANGED token_jti
       ELSE /\ token_jti' = [token_jti EXCEPT ![claims.jti] = NoRow]
            /\ IF SidMismatch(claims, up[u].sessionId) THEN Destroy(u, "sid mismatch")
               ELSE up' = [up EXCEPT ![u].pc = "selectJti"]
  /\ UNCHANGED <<now, sessions, k8sVars, req, res, apiVars>>

\* lines 216-220: verifySessionJWT returned or threw; the sid check
UpgradeVerify(u) ==
  /\ up[u].pc = "verify"
  /\ LET claims == verifySessionJWT(up[u].token, "ws", getJWKS, now) IN
       IF claims = NoClaims THEN Destroy(u, "upgrade error")
       ELSE IF SidMismatch(claims, up[u].sessionId) THEN Destroy(u, "sid mismatch")
       ELSE up' = [up EXCEPT ![u].pc = "selectJti"]
  /\ UNCHANGED <<now, storeVars, k8sVars, req, res, apiVars>>

\* line 223: the rows of SELECT session_id FROM token_jti WHERE jti = $1
JtiRows(jti) == IF token_jti[jti] # NoRow THEN <<token_jti[jti]>> ELSE <<>>

\* lines 223-227: the jti lookup returned
UpgradeSelectJti(u) ==
  /\ up[u].pc = "selectJti"
  /\ IF Len(JtiRows(ClaimsOf(up[u]).jti)) = 0
     THEN Destroy(u, "jti not found")
     ELSE up' = [up EXCEPT ![u].pc = "deleteJti"]
  /\ UNCHANGED <<now, storeVars, k8sVars, req, res, apiVars>>

\* the DELETE of line 229 left out
DeleteJtiSkipped(jti) == token_jti

\* line 229: DELETE FROM token_jti WHERE jti = $1
DeleteJti(jti) == [token_jti EXCEPT ![jti] = NoRow]

\* line 229: the DELETE returned
UpgradeDeleteJti(u) ==
  /\ up[u].pc = "deleteJti"
  /\ token_jti' = DeleteJti(ClaimsOf(up[u]).jti)
  /\ up' = [up EXCEPT ![u].pc = "selectSession"]
  /\ UNCHANGED <<now, sessions, k8sVars, req, res, apiVars>>

\* SELECT pod_ip FROM sessions without its WHERE clause
SessionRowsUnfiltered(sid) ==
  IF \E s \in SessionIds : sessions[s] # NoRow
  THEN <<sessions[CHOOSE s \in SessionIds : sessions[s] # NoRow]>>
  ELSE <<>>

\* line 232: the rows of SELECT pod_ip FROM sessions WHERE session_id = $1
SessionRows(sid) ==
  IF sid \in SessionIds /\ sessions[sid] # NoRow THEN <<sessions[sid]>> ELSE <<>>

\* line 239: `http://${session.pod_ip}:7681/`
TargetOf(pod_ip) == <<"http://", pod_ip, TtydPort>>

\* the failure branch of lines 234-237 putting the token_jti row back
UpgradeSelectSessionRestoring(u) ==
  /\ up[u].pc = "selectSession"
  /\ LET rows == SessionRows(up[u].sessionId) IN
       IF rows = <<>> \/ rows[1].pod_ip = NoIp
       THEN /\ Destroy(u, "session or pod_ip not found")
            /\ token_jti' = [token_jti EXCEPT ![ClaimsOf(up[u]).jti] =
                 [session_id |-> up[u].sessionId, expires_at |-> ClaimsOf(up[u]).exp]]
       ELSE /\ up' = [up EXCEPT ![u].target = TargetOf(rows[1].pod_ip), ![u].pc = "proxying"]
            /\ UNCHANGED token_jti
  /\ UNCHANGED <<now, sessions, k8sVars, req, res, apiVars>>

\* lines 232-240: the session lookup returned; proxy.ws(req, socket, head, { target })
UpgradeSelectSession(u) ==
  /\ up[u].pc = "selectSession"
  /\ LET rows == SessionRows(up[u].sessionId) IN
       IF rows = <<>> \/ rows[1].pod_ip = NoIp
       THEN Destroy(u, "session or pod_ip not found")
       ELSE up' = [up EXCEPT ![u].target = TargetOf(rows[1].pod_ip), ![u].pc = "proxying"]
  /\ UNCHANGED <<now, storeVars, k8sVars, req, res, apiVars>>

\* a catch that logs the error and leaves the socket open
UpgradeCatchSwallowing(u) ==
  /\ up[u].pc \in {"verify", "selectJti", "deleteJti", "selectSession"}
  /\ up' = [up EXCEPT ![u].pc = "hung", ![u].log = "upgrade error"]
  /\ UNCHANGED <<now, storeVars, k8sVars, req, res, apiVars>>

\* lines 241-244: an awaited call (key-set fetch, store query) threw
UpgradeCatch(u) ==
  /\ up[u].pc \in {"verify", "selectJti", "deleteJti", "selectSession"}
  /\ Destroy(u, "upgrade error")
  /\ UNCHANGED <<now, storeVars, k8sVars, req, res, apiVars>>

(***************************************************************************)
(* Controller middleware: globalLimiter, sessionLimiter, requireApiKey.    *)
(***************************************************************************)
\* a request that has not arrived, and one that has
NoRequest == [absent |-> TRUE]
Received(authz, t) == [authorization |-> authz, at |-> t]

\* a key the store of a limiter has no entry for
NoWindow == [hits |-> 0, resetTime |-> 0]

\* a store that never starts a new window
IncrementNoReset(store, key, t) ==
  [store EXCEPT ![key] =
     IF @.hits = 0
     THEN [hits |-> 1, resetTime |-> t + windowMs]
     ELSE [@ EXCEPT !.hits = @ + 1]]

\* the store's increment(key) at time t: a new window starts with the first
\* hit and after resetTime
Increment(store, key, t) ==
  [store EXCEPT ![key] =
     IF @.hits = 0 \/ t >= @.resetTime
     THEN [hits |-> 1, resetTime |-> t + windowMs]
     ELSE [@ EXCEPT !.hits = @ + 1]]

\* the Authorization header is <<>> when absent, else <<scheme, credentials>>
\* with the scheme followed by its blank
AuthzValues ==
  { <<>>, <<"Bearer ", "key">>, <<"Bearer ", "wrong">>, <<"Bearer ", "">>, <<"Basic ", "key">> }

Passed == [pass |-> TRUE, status |-> 200, error |-> None]
Refused(status, error) == [pass |-> FALSE, status |-> status, error |-> error]

\* the comparison of line 112 left out: any bearer value passes
requireApiKeyAnyBearer(authz) ==
  IF authz = <<>> \/ authz[1] # "Bearer "
  THEN Refused(401, "Missing Authorization header with Bearer token")
  ELSE IF env.API_KEY = "" THEN Refused(500, "Server configuration error")
  ELSE Passed

\* requireApiKey: Passed when it calls next()
requireApiKey(authz) ==
  IF authz = <<>> \/ authz[1] # "Bearer "
  THEN Refused(401, "Missing Authorization header with Bearer token")
  ELSE IF env.API_KEY = "" THEN Refused(500, "Server configuration error")
  ELSE IF authz[2] # env.API_KEY THEN Refused(401, "Invalid API key")
  ELSE Passed

\* a POST /api/sessions request that has not reached the server yet
ArrivingReq == [IdleReq EXCEPT !.pc = "arriving"]

\* a session limiter whose handler answers 429 and then calls next()
PostArriveLimiterNext(r, authz) ==
  /\ req[r].pc = "arriving"
  /\ LET ip == ClientIdOf(r)
         global == Increment(limiter.global, ip, now)
         session == Increment(limiter.session, ip, now)
     IN /\ limiter' = [global |-> global, session |-> session]
        /\ IF session[ip].hits > sessionMax
           THEN /\ res' = [res EXCEPT ![r] =
                     Send(res[r], 429,
                          [error |-> "Too many sessions created. Please wait before creating more.",
                           retryAfter |-> retryAfter, sessionId |-> None, token |-> NoToken])]
                /\ req' = [req EXCEPT ![r].pc = "idle"]
           ELSE IF ~requireApiKey(authz).pass
           THEN Respond(r, requireApiKey(authz).status,
                        [error |-> requireApiKey(authz).error, sessionId |-> None,
                         token |-> NoToken])
           ELSE /\ req' = [req EXCEPT ![r].pc = "idle"]
                /\ UNCHANGED res
  /\ http' = [http EXCEPT ![r] = Received(authz, now)]
  /\ UNCHANGED <<now, storeVars, k8sVars, up, env, get, proc>>

\* app.use(globalLimiter), sessionLimiter, requireApiKey in front of the
\* POST /api/sessions handler: the request of caller ClientIdOf(r) arrives
PostArrive(r, authz) ==
  /\ req[r].pc = "arriving"
  /\ LET ip == ClientIdOf(r)
         global == Increment(limiter.global, ip, now)
         session == Increment(limiter.session, ip, now)
     IN IF global[ip].hits > globalMax
        THEN /\ limiter' = [limiter EXCEPT !.global = global]
             /\ Respond(r, 429, [error |-> "Server is under heavy load. Please try again later.",
                                 sessionId |-> None, token |-> NoToken])
        ELSE IF session[ip].hits > sessionMax
        THEN /\ limiter' = [global |-> global, session |-> session]
             /\ Respond(r, 429,
                        [error |-> "Too many sessions created. Please wait before creating more.",
                         retryAfter |-> retryAfter, sessionId |-> None, token |-> NoToken])
        ELSE /\ limiter' = [global |-> global, session |-> session]
             /\ IF ~requireApiKey(authz).pass
                THEN Respond(r, requireApiKey(authz).status,
                             [error |-> requireApiKey(authz).error, sessionId |-> None,
                              token |-> NoToken])
                ELSE /\ req' = [req EXCEPT ![r].pc = "idle"]
                     /\ UNCHANGED res
  /\ http' = [http EXCEPT ![r] = Received(authz, now)]
  /\ UNCHANGED <<now, storeVars, k8sVars, up, env, get, proc>>

(***************************************************************************)
(* Controller: GET /api/sessions/:id                                       *)
(***************************************************************************)
Gets == {"g1"}
IdleGet == [pc |-> "idle", clientId |-> None, sessionId |-> None, res |-> NoResponse]
NoSession == [absent |-> TRUE]

\* /^[a-f0-9-]{36}$/i.test(sessionId): the uuids match, "bad" does not
IsSessionIdFormat(sid) == sid \in SessionIds
GetPaths == SessionIds \cup {"bad"}

Answer(g, status, error, session) ==
  get' = [get EXCEPT ![g].pc = "done",
                     ![g].res = Send(get[g].res, status, [error |-> error, session |-> session])]

\* lines 90, 293-305: globalLimiter, requireApiKey, the format check; then
\* the SELECT is awaited
GetSessionStart(g, ip, authz, sid) ==
  /\ get[g].pc = "idle"
  /\ LET global == Increment(limiter.global, ip, now) IN
       /\ limiter' = [limiter EXCEPT !.global = global]
       /\ IF global[ip].hits > globalMax
          THEN Answer(g, 429, "Server is under heavy load. Please try again later.", NoSession)
          ELSE IF ~requireApiKey(authz).pass
          THEN Answer(g, requireApiKey(authz).status, requireApiKey(authz).error, NoSession)
          ELSE IF ~IsSessionIdFormat(sid)
          THEN Answer(g, 400, "Invalid session ID format", NoSession)
          ELSE get' = [get EXCEPT ![g].pc = "select", ![g].clientId = ip, ![g].sessionId = sid]
  /\ http' = [http EXCEPT ![g] = Received(authz, now)]
  /\ UNCHANGED <<now, storeVars, k8sVars, req, res, up, env, proc>>

\* the owner check of line 312 left out
GetSessionSelectAnyCaller(g) ==
  /\ get[g].pc = "select"
  /\ IF sessions[get[g].sessionId] = NoRow
     THEN Answer(g, 404, "Session not found", NoSession)
     ELSE Answer(g, 200, None, sessions[get[g].sessionId])
  /\ UNCHANGED <<now, storeVars, k8sVars, req, res, up, env, limiter, http, proc>>

\* lines 302-317: SELECT * FROM sessions WHERE session_id = $1 returned
GetSessionSelect(g) ==
  /\ get[g].pc = "select"
  /\ LET rows == IF sessions[get[g].sessionId] # NoRow
                 THEN <<sessions[get[g].sessionId]>> ELSE <<>>
     IN IF rows = <<>> THEN Answer(g, 404, "Session not found", NoSession)
        ELSE IF rows[1].owner_user_id # get[g].clientId
        THEN Answer(g, 403, "Forbidden", NoSession)
        ELSE Answer(g, 200, None, rows[1])
  /\ UNCHANGED <<now, storeVars, k8sVars, req, res, up, env, limiter, http, proc>>

\* lines 302-305 threw: asyncHandler's catch
GetSessionThrow(g) ==
  /\ get[g].pc = "select"
  /\ LET body == [error |-> "Internal server error", session |-> NoSession] IN
       get' = [get EXCEPT ![g].pc = "done",
                          ![g].res = globalErrorHandler(asyncHandlerCatch(get[g].res, body), body)]
  /\ UNCHANGED <<now, storeVars, k8sVars, req, res, up, env, limiter, http, proc>>

GetSession(g) ==
  \/ \E ip \in Callers, authz \in AuthzValues, sid \in GetPaths : GetSessionStart(g, ip, authz, sid)
  \/ GetSessionSelect(g)
  \/ GetSessionThrow(g)

(***************************************************************************)
(* What the clients send.                                                  *)
(***************************************************************************)
\* tokens handed out in 200 responses
Issued == {res[r].token : r \in {x \in Reqs : res[x] # NoResponse /\ res[x].status = 200}}
\* the same claims signed with a key the Controller does not publish
Resigned(jwt) == [jwt EXCEPT !.key = "attacker"]
Presentable == Issued \cup {Resigned(jwt) : jwt \in Issued}
\* new WebSocket(url + '?token=' + t), and a request without a token
Offers ==
  {[proto |-> Absent, query |-> Present(<<Compact(jwt)>>)] : jwt \in Presentable}
    \cup {[proto |-> Absent, query |-> Absent]}
Paths == SessionIds \cup {None}

\* the Controller process after app.listen: the server accepts connections,
\* the pool is open, no signal has come. dbHandler and gracefulShutdown are
\* the positions of the two listeners of SIGTERM and SIGINT; draining holds
\* the queries that were under way when pool.end() was called
Started ==
  [server |-> "listening", pool |-> "open", signalled |-> FALSE, dbHandler |-> "idle",
   gracefulShutdown |-> "idle", exited |-> FALSE, code |-> 0, draining |-> {}]

\* the deployment's environment: the default allowlist and an API key
DefaultEnv ==
  [ALLOWED_CODE_DOMAINS |-> <<>>, API_KEY |-> "key", SESSION_EXPIRY_SECONDS |-> Unset]
\* no request has been counted
NoHits == [global |-> [c \in Callers |-> NoWindow], session |-> [c \in Callers |-> NoWindow]]

Init ==
  /\ now = 0
  /\ sessions = [s \in SessionIds |-> NoRow]
  /\ token_jti = [j \in Jtis |-> NoRow]
  /\ jobs = {}
  /\ pods = [j \in JobNames |-> {}]
  /\ req = [r \in Reqs |-> IdleReq]
  /\ res = [r \in Reqs |-> NoResponse]
  /\ up = [u \in Ups |-> IdleUp]
  /\ env = DefaultEnv
  /\ limiter = NoHits
  /\ get = [g \in Gets |-> IdleGet]
  /\ http = [x \in Reqs \cup Gets |-> NoRequest]
  /\ proc = Started

Environment ==
  \/ Tick
  \/ \E j \in JobNames, p \in PodNames : PodRuns(j, p)

Controller(r) ==
  \/ \E b \in Bodies : CreateSessionStart(r, b)
  \/ CreateJobOk(r)
  \/ CreateJobThrow(r)
  \/ InsertSessionOk(r)
  \/ InsertSessionThrow(r)
  \/ \E p \in PodNames : ListPodsFound(r, p)
  \/ ListPodsNone(r)
  \/ ListPodsThrow(r)
  \/ UpdateSessionOk(r)
  \/ UpdateSessionThrow(r)
  \/ MintOk(r)
  \/ MintThrow(r)
  \/ InsertJtiOk(r)
  \/ InsertJtiThrow(r)

Gateway(u) ==
  \/ \E path \in Paths, o \in Offers : UpgradeReceive(u, path, o.proto, o.query)
  \/ UpgradeVerify(u)
  \/ UpgradeSelectJti(u)
  \/ UpgradeDeleteJti(u)
  \/ UpgradeSelectSession(u)
  \/ UpgradeCatch(u)

\* two createSession requests, the second sent once the first was answered,
\* and one upgrade attempt
Next ==
  \/ Environment
  \/ Controller("r1")
  \/ (req["r1"].pc = "done" /\ Controller("r2"))
  \/ Gateway("u1")
Spec == Init /\ [][Next]_vars

\* one createSession request and two concurrent upgrade attempts
NextAttach == Environment \/ Controller("r1") \/ (\E u \in Ups : Gateway(u))
SpecAttach == Init /\ [][NextAttach]_vars

\* the continuation of an upgrade handler after an await: the awaited call
\* returned or threw
Continue(u) ==
  \/ UpgradeVerify(u)
  \/ UpgradeSelectJti(u)
  \/ UpgradeDeleteJti(u)
  \/ UpgradeSelectSession(u)
  \/ UpgradeCatch(u)
\* every awaited call settles, and the event loop then runs the continuation
SpecAttachLive == Init /\ [][NextAttach]_vars /\ \A u \in Ups : WF_vars(Continue(u))

\* the continuation of the createSession handler after an await: the awaited
\* orchestrator or store call returned or threw, or the sleep of line 266 ended
ContinueCreate(r) ==
  \/ CreateJobOk(r)
  \/ CreateJobThrow(r)
  \/ InsertSessionOk(r)
  \/ InsertSessionThrow(r)
  \/ \E p \in PodNames : ListPodsFound(r, p)
  \/ ListPodsNone(r)
  \/ ListPodsThrow(r)
  \/ UpdateSessionOk(r)
  \/ UpdateSessionThrow(r)
  \/ MintOk(r)
  \/ MintThrow(r)
  \/ InsertJtiOk(r)
  \/ InsertJtiThrow(r)
\* every awaited call of the handler settles, and the event loop then runs the
\* continuation
SpecCreateLive == Init /\ [][NextAttach]_vars /\ WF_vars(ContinueCreate("r1"))

(***************************************************************************)
(* Pod-IP discovery on its own: one request, a Job that can own several    *)
(* pods, and the loop's sleeps kept on the clock.                          *)
(***************************************************************************)
ListedPods == 1..MaxListed
\* the time maxAttempts sleeps of delayMs take: 30 s in the code
DiscoveryDeadline == MaxAttempts * delayMs

\* line 266: iteration i of the loop starts after i sleeps of delayMs, counted
\* from the return of the INSERT of lines 232-235
Slept(r) ==
  /\ req[r].pc = "listPods"
  /\ sessions[req[r].sessionId] # NoRow
  /\ now >= sessions[req[r].sessionId].created_at + req[r].i * delayMs

\* lines 242-267 with the time the sleeps take
Discover(r) ==
  \/ Slept(r) /\ \E p \in ListedPods : ListPodsFound(r, p)
  \/ Slept(r) /\ ListPodsNone(r)
  \/ Slept(r) /\ ListPodsThrow(r)
  \/ UpdateSessionOk(r)
  \/ UpdateSessionThrow(r)

NextDiscover ==
  \/ Tick
  \/ \E p \in ListedPods : PodRuns(jobNameOf(UuidOf("r1")), p)
  \/ CreateSessionStart("r1", GoodBody)
  \/ CreateJobOk("r1")
  \/ CreateJobThrow("r1")
  \/ InsertSessionOk("r1")
  \/ InsertSessionThrow("r1")
  \/ Discover("r1")
  \/ MintOk("r1")
  \/ MintThrow("r1")
  \/ InsertJtiOk("r1")
  \/ InsertJtiThrow("r1")
SpecDiscover == Init /\ [][NextDiscover]_vars

\* the same request under each value of SESSION_EXPIRY_SECONDS: not set, zero,
\* the default's ten minutes, twenty minutes
ExpiryEnvs ==
  {DefaultEnv} \cup {[DefaultEnv EXCEPT !.SESSION_EXPIRY_SECONDS = SetTo(n)] : n \in 0..(2 * TenMinutes)}
InitExpiry ==
  /\ now = 0
  /\ sessions = [s \in SessionIds |-> NoRow]
  /\ token_jti = [j \in Jtis |-> NoRow]
  /\ jobs = {}
  /\ pods = [j \in JobNames |-> {}]
  /\ req = [r \in Reqs |-> IdleReq]
  /\ res = [r \in Reqs |-> NoResponse]
  /\ up = [u \in Ups |-> IdleUp]
  /\ env \in ExpiryEnvs
  /\ limiter = NoHits
  /\ get = [g \in Gets |-> IdleGet]
  /\ http = [x \in Reqs \cup Gets |-> NoRequest]
  /\ proc = Started
SpecExpiry == InitExpiry /\ [][NextDiscover]_vars

(***************************************************************************)
(* Two requests whose session ids start with the same 13 characters, the   *)
(* second sent once the first was answered; Jobs come and go.              *)
(***************************************************************************)
CollidingReqs == {"r1", "r3"}
InitCollide ==
  /\ now = 0
  /\ sessions = [s \in {UuidOf(r) : r \in CollidingReqs} |-> NoRow]
  /\ token_jti = [j \in Jtis |-> NoRow]
  /\ jobs = {}
  /\ pods = [j \in JobNames |-> {}]
  /\ req = [r \in CollidingReqs |-> IdleReq]
  /\ res = [r \in CollidingReqs |-> NoResponse]
  /\ up = [u \in Ups |-> IdleUp]
  /\ env = DefaultEnv
  /\ limiter = NoHits
  /\ get = [g \in Gets |-> IdleGet]
  /\ http = [x \in Reqs \cup Gets |-> NoRequest]
  /\ proc = Started
NextCollide ==
  \/ Environment
  \/ \E j \in JobNames : JobTtlElapsed(j)
  \/ Controller("r1")
  \/ (req["r1"].pc = "done" /\ Controller("r3"))
SpecCollide == InitCollide /\ [][NextCollide]_vars

\* two createSession requests in turn and two upgrade attempts in turn: the
\* second request's INSERTs can prune the first session while the first
\* attempt is under way, and the second attempt comes after the first ended
Ended(l) == l.pc \in {"proxying", "destroyed"}
NextReuse ==
  \/ Environment
  \/ Controller("r1")
  \/ (req["r1"].pc = "done" /\ Controller("r2"))
  \/ Gateway("u1")
  \/ (Ended(up["u1"]) /\ Gateway("u2"))
SpecReuse == Init /\ [][NextReuse]_vars

(***************************************************************************)
(* Token extraction on its own: upgrade requests with arbitrary            *)
(* Sec-WebSocket-Protocol values and ?token= parameters.                   *)
(***************************************************************************)
Blank == <<" ">>
Comma == <<",">>
Tty == <<"t", "t", "y">>
BearerWord == <<"b", "e", "a", "r", "e", "r">>
\* header values: bearer,<token> alone, padded, after another subprotocol,
\* without its comma, without its token, and values that name no bearer
ProtoValues ==
  UNION { { Bearer \o <<t>>,
            Blank \o Bearer \o <<t>>,
            Bearer \o Blank \o <<t>>,
            Tty \o Comma \o Bearer \o <<t>>,
            Tty \o Comma \o Blank \o Bearer \o <<t>>,
            BearerWord \o <<t>>,
            <<t>> } : t \in Garbage }
    \cup { Bearer, BearerWord, Tty, <<>> }
ProtoHeaders == {Present(v) : v \in ProtoValues} \cup {Absent}
Queries == {Present(<<t>>) : t \in Garbage} \cup {Present(<<>>), Absent}

ReceiveAny(u) ==
  \E path \in Paths, p \in ProtoHeaders, q \in Queries : UpgradeReceive(u, path, p, q)

NextProto ==
  \/ \E u \in Ups : ReceiveAny(u)
  \/ \E u \in Ups : UpgradeVerify(u)
SpecProto == Init /\ [][NextProto]_vars

(***************************************************************************)
(* Admission on its own: POST /api/sessions bodies with many hosts and     *)
(* commands, under several ALLOWED_CODE_DOMAINS settings.                  *)
(***************************************************************************)
\* new URL(code_url).hostname of a URL whose host is the IPv6 literal [addr]:
\* the serialised host keeps its brackets
Ipv6Hostname(addr) == <<"[">> \o addr \o <<"]">>

PrivateV4Hostnames ==
  { <<"1", "0", ".", "0", ".", "0", ".", "1">>,
    <<"1", "7", "2", ".", "1", "6", ".", "0", ".", "1">>,
    <<"1", "7", "2", ".", "3", "1", ".", "9", ".", "9">>,
    <<"1", "9", "2", ".", "1", "6", "8", ".", "1", ".", "1">>,
    <<"1", "2", "7", ".", "0", ".", "0", ".", "1">>,
    <<"1", "6", "9", ".", "2", "5", "4", ".", "1", "6", "9", ".", "2", "5", "4">> }
PrivateV6Hostnames ==
  { Ipv6Hostname(<<":", ":", "1">>),
    Ipv6Hostname(<<"f", "e", "8", "0", ":", ":", "1">>),
    Ipv6Hostname(<<"f", "c", "0", "0", ":", ":", "1">>) }
PublicHostnames ==
  { <<"g", "i", "t", "h", "u", "b", ".", "c", "o", "m">>,
    <<"g", "i", "t", "l", "a", "b", ".", "c", "o", "m">>,
    <<"e", "v", "i", "l", ".", "c", "o", "m">>,
    <<"1", "7", "2", ".", "3", "2", ".", "0", ".", "1">>,
    <<"1", "1", ".", "0", ".", "0", ".", "1">> }
Hostnames == PrivateV4Hostnames \cup PrivateV6Hostnames \cup PublicHostnames

\* values of ALLOWED_CODE_DOMAINS: unset, one naming private IPv4 hosts, a
\* wildcard whose suffix an IPv4 address has, one naming IPv6 literals
ValidateEnvs ==
  { DefaultEnv,
    [DefaultEnv EXCEPT !.ALLOWED_CODE_DOMAINS = << <<"g", "i", "t", "h", "u", "b", ".", "c", "o", "m">>, <<"1", "0", ".", "0", ".", "0", ".", "1">>, <<"1", "6", "9", ".", "2", "5", "4", ".", "1", "6", "9", ".", "2", "5", "4">> >>],
    [DefaultEnv EXCEPT !.ALLOWED_CODE_DOMAINS = << <<"*", ".", "1">> >>],
    [DefaultEnv EXCEPT !.ALLOWED_CODE_DOMAINS = << Ipv6Hostname(<<":", ":", "1">>), Ipv6Hostname(<<"f", "e", "8", "0", ":", ":", "1">>) >>] }

Commands ==
  { NpmTest, NpmInject, Undefined, Str(<<>>, 0),
    [type |-> "object", chars |-> <<>>, pad |-> 0],
    Str(<<"n", "p", "m">>, MaxCommandLength),
    Str(<<"a", " ", "$", "(", "i", "d", ")">>, 0), Str(<<"e", "c", "h", "o", " ", "backtick", "i", "d", "backtick">>, 0), Str(<<"e", "c", "h", "o", " ", "$", "{", "H", "O", "M", "E", "}">>, 0), Str(<<"c", "a", "t", " ", "<", "(", "i", "d", ")">>, 0), Str(<<"t", "e", "e", " ", ">", "(", "i", "d", ")">>, 0), Str(<<"$", "(">>, 0),
    Str(<<"e", "c", "h", "o", " ", "$", " ", "(", "a", ")", " ", "{", " ", "}">>, 0), Str(<<"a", " ", "<", " ", "b", " ", ">", " ", "c">>, 0) }

ValidateBodies ==
  { [GoodBody EXCEPT !.code_url = Url(30, protocol, hostname), !.command = command] :
      protocol \in {"https:", "http:", "ftp:"}, hostname \in Hostnames, command \in Commands }

InitValidate ==
  /\ now = 0
  /\ sessions = [s \in SessionIds |-> NoRow]
  /\ token_jti = [j \in Jtis |-> NoRow]
  /\ jobs = {}
  /\ pods = [j \in JobNames |-> {}]
  /\ req = [r \in Reqs |-> IdleReq]
  /\ res = [r \in Reqs |-> NoResponse]
  /\ up = [u \in Ups |-> IdleUp]
  /\ env \in ValidateEnvs
  /\ limiter = NoHits
  /\ get = [g \in Gets |-> IdleGet]
  /\ http = [x \in Reqs \cup Gets |-> NoRequest]
  /\ proc = Started

NextValidate ==
  \/ \E b \in ValidateBodies : CreateSessionStart("r1", b)
  \/ CreateJobOk("r1")
  \/ CreateJobThrow("r1")
SpecValidate == InitValidate /\ [][NextValidate]_vars

(***************************************************************************)
(* Gateway: the request handler of http.createServer. The terminal page of *)
(* GET /ws/{sessionId} is loaded next to one createSession request and one *)
(* upgrade attempt.                                                        *)
(***************************************************************************)
Pages == {"p1"}
\* loads: the requests answered so far; status and token: the status of the
\* last answer and the token its page embeds
IdlePage == [loads |-> 0, status |-> 200, token |-> <<>>]

\* a request handler that redeems the token when it serves the page
PageGetConsuming(p, path, q) ==
  /\ http[p].loads < MaxLoads
  /\ http' = [http EXCEPT ![p] =
       IF path # None
       THEN [loads |-> @.loads + 1, status |-> 200, token |-> q.value]
       ELSE [loads |-> @.loads + 1, status |-> 404, token |-> <<>>]]
  /\ token_jti' = IF path # None /\ Len(q.value) = 1 /\ IsJwt(q.value[1])
                  THEN DeleteJti(JwtDecode(q.value[1]).jti)
                  ELSE token_jti
  /\ UNCHANGED <<now, sessions, k8sVars, req, res, up, env, limiter, get, proc>>

\* lines 29-195: a GET without upgrade on path /ws/<path> (None: the path
\* does not match /^\/ws\/([a-f0-9-]{36})$/i) with query parameter token q;
\* url.searchParams.get('token') || '' is written into the page
PageGet(p, path, q) ==
  /\ http[p].loads < MaxLoads
  /\ http' = [http EXCEPT ![p] =
       IF path # None
       THEN [loads |-> @.loads + 1, status |-> 200, token |-> q.value]
       ELSE [loads |-> @.loads + 1, status |-> 404, token |-> <<>>]]
  /\ UNCHANGED <<now, storeVars, k8sVars, req, res, up, env, limiter, get, proc>>

InitPage ==
  /\ now = 0
  /\ sessions = [s \in SessionIds |-> NoRow]
  /\ token_jti = [j \in Jtis |-> NoRow]
  /\ jobs = {}
  /\ pods = [j \in JobNames |-> {}]
  /\ req = [r \in Reqs |-> IdleReq]
  /\ res = [r \in Reqs |-> NoResponse]
  /\ up = [u \in Ups |-> IdleUp]
  /\ env = DefaultEnv
  /\ limiter = NoHits
  /\ get = [g \in Gets |-> IdleGet]
  /\ http = [x \in Reqs \cup Gets \cup Pages |-> IF x \in Pages THEN IdlePage ELSE NoRequest]
  /\ proc = Started

NextPage ==
  \/ Environment
  \/ Controller("r1")
  \/ Gateway("u1")
  \/ \E path \in Paths, o \in Offers : PageGet("p1", path, o.query)
SpecPage == InitPage /\ [][NextPage]_vars

(***************************************************************************)
(* Controller: SIGTERM and SIGINT. db.ts registers its listeners when it   *)
(* is imported (line 8 of the server), the server registers its own after  *)
(* app.listen; a signal runs both, in that order.                          *)
(***************************************************************************)
Alive == ~proc.exited
\* the handler of r is between its start and its answer
InFlight(r) == req[r].pc \notin {"idle", "done"}
\* the handler of r awaits a pool.query
Querying(r) == req[r].pc \in {"insertSession", "updateSession", "insertJti"}
QueryOf(r) == [r |-> r, pc |-> req[r].pc, i |-> req[r].i]

\* the signal arrives. The listener of db.ts (setup.ts lines 290-301) calls
\* closeDatabasePool(), whose pool.end() stops the pool from taking queries,
\* and awaits it; gracefulShutdown (part_008 lines 339-346) calls
\* server.close(callback), which stops the server from taking connections
Signal(sig) ==
  /\ Alive
  /\ ~proc.signalled
  /\ proc' = [proc EXCEPT !.signalled = TRUE, !.pool = "ending", !.dbHandler = "awaitEnd",
                          !.server = "closing", !.gracefulShutdown = "awaitClose",
                          !.draining = {QueryOf(r) : r \in {x \in DOMAIN req : Querying(x)}}]
  /\ UNCHANGED <<now, storeVars, k8sVars, req, res, up, env, limiter, get, http>>

\* setup.ts lines 285-287, 293-294: pool.end() resolved, no query being under
\* way any more; process.exit(0)
PoolEnded ==
  /\ Alive
  /\ proc.dbHandler = "awaitEnd"
  /\ \A r \in DOMAIN req : ~(Querying(r) /\ QueryOf(r) \in proc.draining)
  /\ proc' = [proc EXCEPT !.pool = "ended", !.dbHandler = "done", !.exited = TRUE, !.code = 0]
  /\ UNCHANGED <<now, storeVars, k8sVars, req, res, up, env, limiter, get, http>>

\* part_008 lines 341-343: every connection has ended and the callback of
\* server.close runs: it calls closeDatabasePool() and awaits it
ServerClosed ==
  /\ Alive
  /\ proc.gracefulShutdown = "awaitClose"
  /\ \A r \in DOMAIN req : ~InFlight(r)
  /\ proc' = [proc EXCEPT !.server = "closed", !.gracefulShutdown = "awaitEnd"]
  /\ UNCHANGED <<now, storeVars, k8sVars, req, res, up, env, limiter, get, http>>

\* part_008 lines 343-344: the awaited closeDatabasePool() settled. On an open
\* pool it resolves and process.exit(0) runs. On a pool whose end() was
\* called before, end() rejects, the callback's promise is rejected with
\* nothing to handle it, and the runtime either ends the process with code 1
\* or only warns (crash)
ShutdownPoolEnd(crash) ==
  /\ Alive
  /\ proc.gracefulShutdown = "awaitEnd"
  /\ proc' =
       IF proc.pool = "open"
       THEN [proc EXCEPT !.pool = "ended", !.gracefulShutdown = "done", !.exited = TRUE,
                         !.code = 0]
       ELSE IF crash
       THEN [proc EXCEPT !.gracefulShutdown = "rejected", !.exited = TRUE, !.code = 1]
       ELSE [proc EXCEPT !.gracefulShutdown = "rejected"]
  /\ UNCHANGED <<now, storeVars, k8sVars, req, res, up, env, limiter, get, http>>

\* a pool.query of the handler returns: the pool was open when it was issued
QueryReturns(r) ==
  /\ proc.pool = "open" \/ QueryOf(r) \in proc.draining
  /\ \/ InsertSessionOk(r)
     \/ UpdateSessionOk(r)
     \/ InsertJtiOk(r)

\* one createSession request and one signal
NextShutdown ==
  \/ Tick
  \/ \E p \in PodNames : PodRuns(jobNameOf(UuidOf("r1")), p)
  \/ \E sig \in {"SIGTERM", "SIGINT"} : Signal(sig)
  \/ PoolEnded
  \/ ServerClosed
  \/ \E crash \in BOOLEAN : ShutdownPoolEnd(crash)
  \/ Alive /\ proc.server = "listening" /\ CreateSessionStart("r1", GoodBody)
  \/ Alive /\ CreateJobOk("r1")
  \/ Alive /\ CreateJobThrow("r1")
  \/ Alive /\ QueryReturns("r1")
  \/ Alive /\ InsertSessionThrow("r1")
  \/ Alive /\ \E p \in PodNames : ListPodsFound("r1", p)
  \/ Alive /\ ListPodsNone("r1")
  \/ Alive /\ ListPodsThrow("r1")
  \/ Alive /\ UpdateSessionThrow("r1")
  \/ Alive /\ MintOk("r1")
  \/ Alive /\ MintThrow("r1")
  \/ Alive /\ InsertJtiThrow("r1")
SpecShutdown == Init /\ [][NextShutdown]_vars

(***************************************************************************)
(* Admission at its edges: hosts around a wildcard entry of the allowlist  *)
(* and commands around the length limit. The request on the wire is kept   *)
(* in http, so that the answer can be held against what was asked.         *)
(***************************************************************************)
Github == <<"g", "i", "t", "h", "u", "b", ".", "c", "o", "m">>
Gitlab == <<"g", "i", "t", "l", "a", "b", ".", "c", "o", "m">>
AdmitHostnames ==
  { Github, Gitlab,
    <<"a", "p", "i", ".">> \o Github,
    <<"r", "a", "w", ".", "a", "p", "i", ".">> \o Github,
    <<"e", "v", "i", "l">> \o Github,
    Github \o <<".", "e", "v", "i", "l", ".", "c", "o", "m">>,
    <<"a", "p", "i", ".">> \o Gitlab,
    <<"c", "o", "m">> }
\* values of ALLOWED_CODE_DOMAINS: unset, a wildcard, a wildcard and a plain
\* entry, a wildcard over a top-level domain
AdmitEnvs ==
  { DefaultEnv,
    [DefaultEnv EXCEPT !.ALLOWED_CODE_DOMAINS = << <<"*", ".">> \o Github >>],
    [DefaultEnv EXCEPT !.ALLOWED_CODE_DOMAINS = << <<"*", ".">> \o Github, Gitlab >>],
    [DefaultEnv EXCEPT !.ALLOWED_CODE_DOMAINS = << <<"*", ".", "c", "o", "m">> >>] }
\* commands of 999, 1000, 1001 and 1002 characters, with and without a
\* forbidden pattern, and a short one
AdmitCommands ==
  { NpmTest,
    Str(<<"n", "p", "m">>, MaxCommandLength - 4),
    Str(<<"n", "p", "m">>, MaxCommandLength - 3),
    Str(<<"n", "p", "m">>, MaxCommandLength - 2),
    Str(<<"n", "p", "m">>, MaxCommandLength - 1),
    Str(<<"$", "(", "i", "d", ")">>, MaxCommandLength - 5),
    Str(<<"$", "(", "i", "d", ")">>, MaxCommandLength - 4) }
AdmitBodies ==
  { [GoodBody EXCEPT !.code_url = Url(30, "https:", hostname), !.command = command] :
      hostname \in AdmitHostnames, command \in AdmitCommands }

\* a POST /api/sessions request with body b that has passed the middleware
Posted(b) == [authorization |-> <<"Bearer ", "key">>, at |-> 0, body |-> b]

InitAdmit ==
  /\ now = 0
  /\ sessions = [s \in SessionIds |-> NoRow]
  /\ token_jti = [j \in Jtis |-> NoRow]
  /\ jobs = {}
  /\ pods = [j \in JobNames |-> {}]
  /\ req = [r \in Reqs |-> IdleReq]
  /\ res = [r \in Reqs |-> NoResponse]
  /\ up = [u \in Ups |-> IdleUp]
  /\ env \in AdmitEnvs
  /\ limiter = NoHits
  /\ get = [g \in Gets |-> IdleGet]
  /\ \E b \in AdmitBodies :
       http = [x \in Reqs \cup Gets |-> IF x = "r1" THEN Posted(b) ELSE NoRequest]
  /\ proc = Started

NextAdmit ==
  \/ CreateSessionStart("r1", http["r1"].body)
  \/ CreateJobOk("r1")
  \/ CreateJobThrow("r1")
  \/ \E j \in JobNames, reading \in Line11Readings : RunnerBoot(j, reading)
SpecAdmit == InitAdmit /\ [][NextAdmit]_vars

(***************************************************************************)
(* The HTTP API: one POST /api/sessions request from its arrival on, one   *)
(* GET /api/sessions/:id request and one upgrade attempt, with and without *)
(* an API_KEY.                                                             *)
(***************************************************************************)
\* the stores after five requests of caller ip1 in the window that is open
FiveHits ==
  [global |-> [NoHits.global EXCEPT !["ip1"] = [hits |-> sessionMax, resetTime |-> windowMs]],
   session |-> [NoHits.session EXCEPT !["ip1"] = [hits |-> sessionMax, resetTime |-> windowMs]]]

ApiEnvs == { DefaultEnv, [DefaultEnv EXCEPT !.API_KEY = ""] }

InitApi ==
  /\ now = 0
  /\ sessions = [s \in SessionIds |-> NoRow]
  /\ token_jti = [j \in Jtis |-> NoRow]
  /\ jobs = {}
  /\ pods = [j \in JobNames |-> {}]
  /\ req = [r \in Reqs |-> ArrivingReq]
  /\ res = [r \in Reqs |-> NoResponse]
  /\ up = [u \in Ups |-> IdleUp]
  /\ env \in ApiEnvs
  /\ limiter \in {NoHits, FiveHits}
  /\ get = [g \in Gets |-> IdleGet]
  /\ http = [x \in Reqs \cup Gets |-> NoRequest]
  /\ proc = Started

NextApi ==
  \/ Environment
  \/ \E authz \in AuthzValues : PostArrive("r1", authz)
  \/ Controller("r1")
  \/ Gateway("u1")
  \/ GetSession("g1")
SpecApi == InitApi /\ [][NextApi]_vars

(***************************************************************************)
(* The rate limiters on their own: seven POST /api/sessions requests, six  *)
(* of one caller, arriving one after the other.                            *)
(***************************************************************************)
LimitReqs == <<"r1", "r2", "r3", "r4", "r5", "r6", "r7", "r8">>

InitLimit ==
  /\ now = 0
  /\ sessions = [s \in SessionIds |-> NoRow]
  /\ token_jti = [j \in Jtis |-> NoRow]
  /\ jobs = {}
  /\ pods = [j \in JobNames |-> {}]
  /\ req = [r \in {LimitReqs[k] : k \in 1..Len(LimitReqs)} |-> ArrivingReq]
  /\ res = [r \in {LimitReqs[k] : k \in 1..Len(LimitReqs)} |-> NoResponse]
  /\ up = [u \in Ups |-> IdleUp]
  /\ env = DefaultEnv
  /\ limiter = NoHits
  /\ get = [g \in Gets |-> IdleGet]
  /\ http = [x \in {LimitReqs[k] : k \in 1..Len(LimitReqs)} \cup Gets |-> NoRequest]
  /\ proc = Started

\* the k-th request arrives once the ones before it have
ArriveInTurn(k, authz) ==
  /\ \A j \in 1..(k - 1) : req[LimitReqs[j]].pc # "arriving"
  /\ PostArrive(LimitReqs[k], authz)

NextLimit ==
  \/ Tick
  \/ \E k \in 1..Len(LimitReqs), authz \in {<<>>, <<"Bearer ", "key">>} : ArriveInTurn(k, authz)
SpecLimit == InitLimit /\ [][NextLimit]_vars

(***************************************************************************)
(* Properties.                                                             *)
(***************************************************************************)
\* the positions of an upgrade handler after verifySessionJWT and the sid check
PastVerify == {"selectJti", "deleteJti", "selectSession", "proxying"}
\* the attempt presents a token the Controller handed out in a 200 response
PresentsIssued(l) == Len(l.token) = 1 /\ IsJwt(l.token[1]) /\ JwtDecode(l.token[1]) \in Issued

\* C1: for a minted token, at most one upgrade attempt presenting it reaches
\* the proxy step, whatever the interleaving of the attempts.
C1_AtMostOneAttach ==
  \A u \in Ups, v \in Ups :
    (up[u].pc = "proxying" /\ up[v].pc = "proxying" /\ up[u].token = up[v].token) => u = v

\* C2: at the step where createSession answers 200, the token_jti row of the
\* returned token exists and the sessions row of the returned sessionId has a
\* non-null pod_ip.
C2_SuccessHasRows ==
  [][\A r \in Reqs :
       (res[r] = NoResponse /\ res'[r] # NoResponse /\ res'[r].status = 200) =>
         /\ token_jti'[res'[r].token.jti] # NoRow
         /\ sessions'[res'[r].sessionId] # NoRow
         /\ sessions'[res'[r].sessionId].pod_ip # NoIp]_vars

\* C3: an attempt whose token carries a sid other than the session id of the
\* URL is never at the proxy step.
C3_SidBound ==
  \A u \in Ups : up[u].pc = "proxying" => ClaimsOf(up[u]).sid = up[u].sessionId

\* the sid check turned away a token that was issued, signed by the published
\* key and unexpired, whose jti row is present, on the URL of a session that
\* has a pod
C3_Witness ==
  \E u \in Ups :
    /\ up[u].pc = "destroyed" /\ up[u].log = "sid mismatch"
    /\ PresentsIssued(up[u])
    /\ ClaimsOf(up[u]).exp > now
    /\ token_jti[ClaimsOf(up[u]).jti] # NoRow
    /\ sessions[up[u].sessionId] # NoRow
    /\ sessions[up[u].sessionId].pod_ip # NoIp

\* C4: a step that destroys the socket at the path match, the token
\* extraction, the verification or the sid check leaves token_jti unchanged.
C4_EarlyFailureKeepsJti ==
  [][\A u \in Ups :
       (up[u].pc \in {"idle", "verify"} /\ up'[u].pc = "destroyed") =>
         token_jti' = token_jti]_vars

\* session A's token was turned away on the URL of session B, and an attempt
\* with the same token on the URL of session A is proxied
C4_Witness ==
  \E u \in Ups, v \in Ups :
    /\ up[u].pc = "destroyed" /\ up[u].log = "sid mismatch"
    /\ PresentsIssued(up[u])
    /\ up[v].pc = "proxying"
    /\ up[v].token = up[u].token
    /\ up[v].sessionId = ClaimsOf(up[u]).sid

\* the token is no JWT, or is signed with a key the key set does not publish,
\* or names another audience, or its exp has passed at time t
Unverifiable(tok, t) ==
  \/ Len(tok) # 1
  \/ ~IsJwt(tok[1])
  \/ LET jwt == JwtDecode(tok[1]) IN
       \/ jwt.key \notin {k.key : k \in getJWKS}
       \/ jwt.aud # "ws"
       \/ jwt.exp <= t

\* C5: an attempt whose token does not verify (signature, audience, exp) takes
\* no step other than the one that destroys its socket, that step leaves the
\* store alone, and no attempt past verification holds a token signed by an
\* unpublished key or for another audience.
C5_UnverifiedStopsAtVerify ==
  /\ [](\A u \in Ups :
          up[u].pc \in PastVerify =>
            /\ ClaimsOf(up[u]).key \in {k.key : k \in getJWKS}
            /\ ClaimsOf(up[u]).aud = "ws")
  /\ [][\A u \in Ups :
          (up[u].pc = "verify" /\ Unverifiable(up[u].token, now) /\ up'[u] # up[u]) =>
            (up'[u].pc = "destroyed" /\ storeVars' = storeVars)]_vars

\* a token with the claims of an issued one, signed by another key, was turned
\* away although its sid matches the URL, its jti row is present and the
\* session has a pod
C5_Witness ==
  \E u \in Ups :
    /\ up[u].pc = "destroyed" /\ up[u].log = "upgrade error"
    /\ Len(up[u].token) = 1 /\ IsJwt(up[u].token[1])
    /\ ClaimsOf(up[u]).key = "attacker"
    /\ ClaimsOf(up[u]).sid = up[u].sessionId
    /\ ClaimsOf(up[u]).exp > now
    /\ token_jti[ClaimsOf(up[u]).jti] # NoRow
    /\ sessions[up[u].sessionId] # NoRow
    /\ sessions[up[u].sessionId].pod_ip # NoIp

\* C6: an attempt that is about to read the sessions row for pod_ip, or is at
\* the proxy step, has no token_jti row left for its token.
C6_ConsumedBeforeLookup ==
  \A u \in Ups :
    up[u].pc \in {"selectSession", "proxying"} => token_jti[ClaimsOf(up[u]).jti] = NoRow

\* an attempt has deleted its jti row and has not read the sessions row yet
C6_Witness ==
  \E u \in Ups :
    /\ up[u].pc = "selectSession"
    /\ PresentsIssued(up[u])
    /\ sessions[up[u].sessionId] # NoRow
    /\ sessions[up[u].sessionId].pod_ip # NoIp

\* C7: an attempt at the proxy step has the target http://<pod_ip>:7681/ where
\* pod_ip is the IP of a pod of the Job of the session named by both the URL
\* and the token's sid, and is the pod_ip of that session's row while the row
\* exists.
C7_RoutesToOwnPod ==
  \A u \in Ups :
    up[u].pc = "proxying" =>
      LET sid == up[u].sessionId IN
        /\ ClaimsOf(up[u]).sid = sid
        /\ \E p \in PodNames : up[u].target = <<"http://", PodIpOf(jobNameOf(sid), p), 7681>>
        /\ sessions[sid] # NoRow => up[u].target = <<"http://", sessions[sid].pod_ip, 7681>>

\* an attempt is proxied while two sessions have a pod each
C7_Witness ==
  \E u \in Ups :
    /\ up[u].pc = "proxying"
    /\ \A s \in SessionIds : sessions[s] # NoRow /\ sessions[s].pod_ip # NoIp
    /\ sessions["sA"].pod_ip # sessions["sB"].pod_ip

\* C8: when the Sec-WebSocket-Protocol header is bearer,<token>, the token the
\* handler goes on with is <token>, whatever ?token= holds.
C8_HeaderTokenUsed ==
  \A u \in Ups :
    ( /\ up[u].pc # "idle"
      /\ up[u].sessionId # None
      /\ up[u].proto.present
      /\ StartsWith(up[u].proto.value, Bearer)
      /\ Len(up[u].proto.value) > Len(Bearer) ) =>
      up[u].token = SubSeq(up[u].proto.value, Len(Bearer) + 1, Len(up[u].proto.value))

\* C9: at the step that submits a Job, the sessions row of its session has
\* been inserted.
C9_SessionRowBeforeJob ==
  [][\A job \in jobs' \ jobs : sessions[job.session] # NoRow]_vars

\* C10: a request answered 400 has submitted no Job, written no sessions row
\* and no token_jti row, minted no token, and has returned.
C10_RejectedHasNoEffect ==
  \A r \in Reqs :
    (res[r] # NoResponse /\ res[r].status = 400) =>
      /\ req[r] = DoneReq
      /\ res[r].token = NoToken
      /\ \A job \in jobs : job.session # UuidOf(r)
      /\ sessions[UuidOf(r)] = NoRow
      /\ token_jti[JtiOf(r)] = NoRow

\* a request was answered 400 and the next one, with a body that passes, 200
C10_Witness ==
  /\ res["r1"] # NoResponse /\ res["r1"].status = 400
  /\ res["r2"] # NoResponse /\ res["r2"].status = 200
  /\ jobs # {}

\* the addresses the claim names: 10/8, 172.16/12, 192.168/16, 127/8,
\* 169.254/16 and the IPv6 hosts ::1, fe80:, fc00:
PrivateHostnames == PrivateV4Hostnames \cup PrivateV6Hostnames

\* C11: no request whose code_url has a private, loopback or link-local host
\* passes admission, whatever ALLOWED_CODE_DOMAINS holds.
C11_PrivateHostRejected ==
  \A r \in Reqs :
    req[r].body # NoBody => req[r].body.code_url.url.hostname \notin PrivateHostnames

\* the substrings the claim names
DangerousSubstrings == { <<"$", "(">>, <<"backtick">>, <<"$", "{">>, <<"<", "(">>, <<">", "(">> }
HasDangerousSubstring(chars) == \E d \in DangerousSubstrings : Contains(chars, d)

\* C12: an admitted request's command holds none of the five substrings, and
\* the COMMAND of a submitted Job is a string without them that is the
\* request's command, or the default when the request has none.
C12_CommandValidatedIsCommandRun ==
  /\ \A r \in Reqs :
       (req[r].body # NoBody /\ req[r].body.command.type = "string") =>
         ~HasDangerousSubstring(req[r].body.command.chars)
  /\ \A job \in jobs :
       /\ job.COMMAND.type = "string"
       /\ ~HasDangerousSubstring(job.COMMAND.chars)
       /\ \E r \in Reqs :
            /\ req[r].body # NoBody
            /\ job.session = req[r].sessionId
            /\ job.COMMAND =
                 IF req[r].body.command.type = "string" /\ Len(req[r].body.command.chars) > 0
                 THEN req[r].body.command
                 ELSE DefaultCommand

\* a Job runs the default command of a request that named none
C12_Witness ==
  \E job \in jobs :
    /\ job.COMMAND = DefaultCommand
    /\ \E r \in Reqs : req[r].body # NoBody /\ req[r].body.command = Undefined

\* the response is the 500 of lines 269-275, which carries the sessionId
TimedOut(response) ==
  response # NoResponse /\ response.status = 500 /\ response.sessionId # None

\* C13: the 500 that carries the sessionId is sent only after the last
\* discovery attempt; at that step the sessions row is present unless it has
\* expired, and from then on the row, while present, has a null pod_ip and no
\* token_jti row names the session.
C13_TimeoutLeavesSessionOnly ==
  /\ [](\A r \in Reqs :
          TimedOut(res[r]) =>
            /\ sessions[res[r].sessionId] # NoRow => sessions[res[r].sessionId].pod_ip = NoIp
            /\ \A j \in Jtis : token_jti[j] # NoRow => token_jti[j].session_id # res[r].sessionId)
  /\ [][\A r \in Reqs :
          (res[r] = NoResponse /\ TimedOut(res'[r])) =>
            /\ res'[r].sessionId = req[r].sessionId
            /\ req[r].i = MaxAttempts - 1
            /\ req[r].sessionExpires >= now => sessions'[req[r].sessionId] # NoRow]_vars

\* a request was answered 500 with its sessionId, no pod of its Job has an IP,
\* and its sessions row is there with a null pod_ip
C13_Witness ==
  \E r \in Reqs :
    /\ TimedOut(res[r])
    /\ pods[jobNameOf(res[r].sessionId)] = {}
    /\ sessions[res[r].sessionId] # NoRow
    /\ sessions[res[r].sessionId].pod_ip = NoIp

\* C14: no step changes a non-null pod_ip of a sessions row that is still
\* there after the step.
C14_PodIpStable ==
  [][\A s \in SessionIds :
       (sessions[s] # NoRow /\ sessions[s].pod_ip # NoIp /\ sessions'[s] # NoRow) =>
         sessions'[s].pod_ip = sessions[s].pod_ip]_vars

\* the first session has its pod_ip, and the second request, sent later, has
\* run its own UPDATE and been answered 200
C14_Witness ==
  /\ sessions["sA"] # NoRow /\ sessions["sA"].pod_ip # NoIp
  /\ sessions["sB"] # NoRow /\ sessions["sB"].pod_ip # NoIp
  /\ res["r2"] # NoResponse /\ res["r2"].status = 200

\* C15: a session is returned by GET /api/sessions/:id, and its pod_ip is
\* resolved by an upgrade, only while its expires_at is later than now.
C15_ExpiredRowAbsent ==
  [][/\ \A g \in Gets :
          (get[g].pc = "select" /\ get'[g].res # NoResponse /\ get'[g].res.status = 200) =>
            sessions[get[g].sessionId].expires_at > now
     /\ \A u \in Ups :
          (up[u].pc = "selectSession" /\ up'[u].pc = "proxying") =>
            sessions[up[u].sessionId].expires_at > now]_vars

\* C16: a 200 of GET /api/sessions/:id carries a row owned by the caller, any
\* other answer carries no row, and a caller other than the owner of the row
\* read is answered 403.
C16_OwnerOnly ==
  /\ [](\A g \in Gets :
          get[g].res # NoResponse =>
            IF get[g].res.status = 200
            THEN /\ get[g].res.session # NoSession
                 /\ get[g].res.session.owner_user_id = get[g].clientId
            ELSE get[g].res.session = NoSession)
  /\ [][\A g \in Gets :
          ( /\ get[g].pc = "select" /\ get'[g].res # NoResponse
            /\ sessions[get[g].sessionId] # NoRow
            /\ sessions[get[g].sessionId].owner_user_id # get[g].clientId
            /\ get'[g].res.status # 500 ) =>
            get'[g].res.status = 403]_vars

\* a caller with the API key, other than the owner, asked for a session that
\* exists and has a pod, and was answered 403
C16_Witness ==
  \E g \in Gets :
    /\ get[g].res # NoResponse /\ get[g].res.status = 403
    /\ sessions[get[g].sessionId] # NoRow
    /\ sessions[get[g].sessionId].pod_ip # NoIp
    /\ sessions[get[g].sessionId].owner_user_id # get[g].clientId

\* the request carries no Authorization: Bearer header, or a bearer value
\* other than the configured credential
Unauthenticated(request) ==
  \/ request.authorization = <<>>
  \/ request.authorization[1] # "Bearer "
  \/ request.authorization[2] # env.API_KEY

ArrivedFrom(ip, t) ==
  {r \in DOMAIN http : http[r] # NoRequest /\ ClientIdOf(r) = ip /\ http[r].at = t}
\* those of them the session limiter let through
LetThrough(ip, t) == {r \in ArrivedFrom(ip, t) : res[r] = NoResponse \/ res[r].status # 429}

\* C18: of the requests of one caller in one window at most sessionMax = 5 get
\* past the session limiter; a request is answered 429, with retryAfter, only
\* when five others of its caller arrived in its window.
C18_FivePerWindow ==
  /\ \A ip \in Callers, t \in Times :
       /\ Cardinality(LetThrough(ip, t)) <= 5
       /\ Cardinality(ArrivedFrom(ip, t)) > 5 => Cardinality(LetThrough(ip, t)) = 5
  /\ \A r \in DOMAIN res :
       (res[r] # NoResponse /\ res[r].status = 429) =>
         /\ res[r].retryAfter = 60
         /\ Cardinality(ArrivedFrom(ClientIdOf(r), http[r].at) \ {r}) >= 5

\* the sixth request of caller ip1 in a window was answered 429, the request
\* of caller ip2 in the same window passed, and so did one of ip1 after the
\* window
C18_Witness ==
  /\ res["r7"] # NoResponse /\ res["r7"].status = 429 /\ http["r7"].at = 0
  /\ http["r4"] # NoRequest /\ http["r4"].at = 0 /\ req["r4"].pc = "idle"
  /\ http["r8"] # NoRequest /\ http["r8"].at = 1 /\ req["r8"].pc = "idle"

\* the attempt has deleted the jti row of its token
Consumed(l) ==
  \/ l.pc \in {"selectSession", "proxying"}
  \/ l.pc = "destroyed" /\ l.log = "session or pod_ip not found"

\* C19: the token_jti row of an issued token, once gone, never comes back; an
\* attempt that consumed it and then fails changes neither table; and an
\* attempt that looks the row up after that is destroyed.
C19_ConsumedStaysConsumed ==
  /\ [](\A u \in Ups : Consumed(up[u]) => token_jti[ClaimsOf(up[u]).jti] = NoRow)
  /\ [][/\ \A jwt \in Issued : token_jti[jwt.jti] = NoRow => token_jti'[jwt.jti] = NoRow
        /\ \A u \in Ups :
             (up[u].pc = "selectSession" /\ up'[u].pc = "destroyed") =>
               (sessions' = sessions /\ token_jti' = token_jti)
        /\ \A u \in Ups :
             (up'[u] # up[u]) => sessions' = sessions
        /\ \A v \in Ups :
             ( /\ up[v].pc = "selectJti" /\ up'[v] # up[v]
               /\ token_jti[ClaimsOf(up[v]).jti] = NoRow ) =>
               up'[v].pc = "destroyed"]_vars

\* an attempt consumed the token and was destroyed because the session row was
\* gone, the row of another session is still there, and a later attempt with
\* the same token was destroyed at the jti lookup
C19_Witness ==
  /\ up["u1"].pc = "destroyed" /\ up["u1"].log = "session or pod_ip not found"
  /\ PresentsIssued(up["u1"])
  /\ up["u2"].pc = "destroyed" /\ up["u2"].log = "jti not found"
  /\ up["u2"].token = up["u1"].token
  /\ up["u2"].sessionId = up["u1"].sessionId

\* the position of a step in the upgrade handler
StepOf(pc) ==
  CASE pc = "idle" -> 0
    [] pc = "verify" -> 1
    [] pc = "selectJti" -> 2
    [] pc = "deleteJti" -> 3
    [] pc = "selectSession" -> 4
    [] pc \in {"proxying", "destroyed"} -> 5
    [] OTHER -> 6

\* C20: an upgrade the Gateway has received ends, proxying or destroyed, never
\* both; each step is the next step of the handler or the destruction of the
\* socket, no step runs twice, an ended attempt never changes, and an attempt
\* is proxied only from the session lookup, with a target, while a destroyed
\* one has none.
C20_EndsProxyingOrDestroyed ==
  /\ \A u \in Ups : (up[u].pc # "idle") ~> Ended(up[u])
  /\ [](\A u \in Ups :
          /\ StepOf(up[u].pc) <= 5
          /\ up[u].pc = "destroyed" => (up[u].target = NoTarget /\ up[u].log # None)
          /\ up[u].pc = "proxying" => up[u].target # NoTarget)
  /\ [][\A u \in Ups :
          (up'[u] # up[u]) =>
            /\ ~Ended(up[u])
            /\ \/ up'[u].pc = "destroyed"
               \/ StepOf(up'[u].pc) = StepOf(up[u].pc) + 1]_vars

\* a store query threw after the attempt had consumed its token: the attempt
\* was destroyed, the other has not been received
C20_Witness ==
  /\ up["u1"].pc = "destroyed" /\ up["u1"].log = "upgrade error"
  /\ PresentsIssued(up["u1"])
  /\ token_jti[ClaimsOf(up["u1"]).jti] = NoRow
  /\ sessions[up["u1"].sessionId] # NoRow
  /\ up["u2"].pc = "idle"

\* what the client of an attempt can observe of the Gateway: whether its
\* connection was destroyed, whether it is being proxied, and the bytes the
\* Gateway itself wrote to it
ClientView(l) == [destroyed |-> l.pc = "destroyed", proxied |-> l.pc = "proxying", sent |-> l.sent]

\* C21: any two destroyed attempts look the same to their clients, whatever
\* step destroyed them: a destroyed connection and no byte written.
C21_FailuresLookAlike ==
  \A u \in Ups, v \in Ups :
    (up[u].pc = "destroyed" /\ up[v].pc = "destroyed") =>
      /\ ClientView(up[u]) = ClientView(up[v])
      /\ up[u].sent = <<>>

\* one attempt was destroyed at the path check, the other, with an issued
\* token, as late as the session lookup
C21_Witness ==
  /\ up["u1"].pc = "destroyed" /\ up["u1"].log = "invalid ws path"
  /\ up["u2"].pc = "destroyed" /\ up["u2"].log = "session or pod_ip not found"
  /\ PresentsIssued(up["u2"])

\* C22: when the observation that finds a pod sees several pods with an IP,
\* the pod it takes is the one with the smallest name.
C22_SmallestPodNameChosen ==
  [][\A r \in Reqs :
       (req[r].pc = "listPods" /\ req'[r].pc = "updateSession") =>
         \A p \in pods[jobNameOf(req[r].sessionId)] : req'[r].podName <= p]_vars

\* the handler answered the discovery-timeout error of lines 269-275
TimeoutSent(r) ==
  /\ res[r] # NoResponse
  /\ res[r].status = 500
  /\ res[r].error = "Failed to start session. Please try again."

\* C23: the first pod IP of the session's Job appears, at the instant now,
\* while discovery started at created_at. Before the deadline, the handler
\* has not given up; from the deadline on, it observes no more. (An event at
\* instant t of the model clock happens in the interval from t to t + 1.)
C23_DeadlineIsThirtySeconds ==
  [][\A r \in Reqs :
       LET sid == UuidOf(r)
           j == jobNameOf(sid)
       IN (pods[j] = {} /\ pods'[j] # {} /\ sessions[sid] # NoRow) =>
            IF now < sessions[sid].created_at + DiscoveryDeadline
            THEN ~TimeoutSent(r)
            ELSE req[r].pc # "listPods"]_vars

\* C24: the token_jti row of a token the Controller handed out has expires_at
\* equal to the token's exp claim.
C24_RowExpiresWithToken ==
  \A jwt \in Issued :
    token_jti[jwt.jti] # NoRow => token_jti[jwt.jti].expires_at = jwt.exp

\* C25: the lifetime of a token the Controller handed out, exp minus iat, is
\* at most ten minutes, whatever SESSION_EXPIRY_SECONDS is set to.
C25_LifetimeAtMostTenMinutes ==
  \A jwt \in Issued : jwt.exp - jwt.iat <= TenMinutes

\* C26: a token the Controller minted for (subject, sessionId, "ws"), sent in
\* its compact form and verified before its exp with audience "ws" against
\* the published key set, yields the subject and the sid it was minted for;
\* its kid is the kid of a published key.
C26_MintThenVerify ==
  \A r \in Reqs :
    (res[r] # NoResponse /\ res[r].status = 200) =>
      /\ \E k \in getJWKS : k.kid = res[r].token.kid
      /\ now < res[r].token.exp =>
           LET claims == verifySessionJWT(<<Compact(res[r].token)>>, "ws", getJWKS, now) IN
             /\ claims # NoClaims
             /\ claims.sub = ClientIdOf(r)
             /\ claims.sid = res[r].sessionId

\* the Gateway verified, before its exp, the token a request was answered
\* with, and went on to the jti lookup
C26_Witness ==
  /\ res["r1"] # NoResponse /\ res["r1"].status = 200
  /\ now < res["r1"].token.exp
  /\ up["u1"].pc = "selectJti"
  /\ up["u1"].token = <<Compact(res["r1"].token)>>
  /\ ClaimsOf(up["u1"]).sub = ClientIdOf("r1")

\* C27: every sessions row has job_name "wscli-" + the first 13 characters of
\* its session_id, and no two rows share a job_name (nor, the table being
\* keyed by it, a session_id); a request whose job name is taken, by a Job at
\* the submit or by a row at the INSERT, is answered 500 and leaves Jobs and
\* rows as they are.
C27_JobNameUnique ==
  /\ [](\A s \in DOMAIN sessions :
          sessions[s] # NoRow =>
            /\ sessions[s].job_name = <<"wscli-", Slice13(s)>>
            /\ \A t \in DOMAIN sessions :
                 (t # s /\ sessions[t] # NoRow) => sessions[t].job_name # sessions[s].job_name)
  /\ [][\A r \in DOMAIN req :
          /\ ( /\ req[r].pc = "createJob" /\ req'[r] # req[r]
                /\ \E job \in jobs : job.name = jobNameOf(req[r].sessionId) ) =>
               /\ res'[r] # NoResponse /\ res'[r].status = 500
               /\ jobs' = jobs /\ sessions' = sessions
          /\ ( /\ req[r].pc = "insertSession" /\ req'[r] # req[r]
                /\ \E s \in DOMAIN sessions :
                     sessions[s] # NoRow /\ sessions[s].job_name = jobNameOf(req[r].sessionId) ) =>
               /\ res'[r] # NoResponse /\ res'[r].status = 500
               /\ res'[r].error = "Internal server error"
               /\ sessions' = sessions]_vars

\* the second request got its Job after the first one's was removed, its
\* INSERT met the first session's row, and it was answered 500 without a row
C27_Witness ==
  /\ sessions["sA"] # NoRow /\ sessions["sA"].job_name = jobNameOf("sC")
  /\ sessions["sC"] = NoRow
  /\ \E job \in jobs : job.session = "sC"
  /\ res["r3"] # NoResponse /\ res["r3"].status = 500
  /\ res["r3"].error = "Internal server error"

\* C28: a request whose createNamespacedJob threw, or one of whose
\* listNamespacedPod calls threw, is answered 500, has no token minted and no
\* token_jti row written.
C28_OrchestratorFailureIs500 ==
  /\ [](\A r \in DOMAIN req :
          "listNamespacedPod" \in req[r].warned => req[r].minted = NoToken)
  /\ [][\A r \in DOMAIN req :
          /\ (req[r].pc = "createJob" /\ req'[r] # req[r] /\ jobs' = jobs) =>
               /\ res'[r] # NoResponse /\ res'[r].status = 500 /\ res'[r].token = NoToken
               /\ token_jti' = token_jti
          /\ (res[r] = NoResponse /\ res'[r] # NoResponse
               /\ "listNamespacedPod" \in req[r].warned) =>
               /\ res'[r].status = 500 /\ res'[r].token = NoToken
               /\ token_jti' = token_jti]_vars

\* C29: a request is answered at most once: a response, once sent, is never
\* followed by another, whether the handler returned or threw; the answer to
\* a handler that threw before responding is the one generic 500 body.
C29_AtMostOneResponse ==
  /\ [](/\ \A r \in DOMAIN res : headersSent(res[r]) => res[r].sends = 1
         /\ \A g \in Gets : headersSent(get[g].res) => get[g].res.sends = 1)
  /\ [][/\ \A r \in DOMAIN res : headersSent(res[r]) => res'[r] = res[r]
        /\ \A g \in Gets : headersSent(get[g].res) => get'[g].res = get[g].res
        /\ \A g \in Gets :
             (get[g].pc = "select" /\ headersSent(get'[g].res) /\ get'[g].res.status = 500) =>
               get'[g].res.error = "Internal server error"]_vars

\* the INSERT of a POST and the SELECT of a GET threw, and each request was
\* answered by one generic 500
C29_Witness ==
  /\ headersSent(res["r1"]) /\ res["r1"].status = 500
  /\ res["r1"].error = "Internal server error" /\ res["r1"].sends = 1
  /\ \E job \in jobs : job.session = UuidOf("r1")
  /\ headersSent(get["g1"].res) /\ get["g1"].res.status = 500
  /\ get["g1"].res.error = "Internal server error" /\ get["g1"].res.sends = 1

\* the handler is inside the discovery loop of lines 242-267
Polling(l) == l.pc \in {"listPods", "updateSession"}

\* C30: provided every orchestrator and store call returns or throws, a
\* createSession handler that started eventually sends a response; every
\* observation of the pods is made with i < maxAttempts and every step of the
\* handler back to the listing raises i, so there are at most maxAttempts of
\* them; and the loop is left
\* either towards the mint or with the discovery-timeout answer.
C30_DiscoveryTerminates ==
  /\ [](\A r \in DOMAIN req : Polling(req[r]) => req[r].i < MaxAttempts)
  /\ [][\A r \in DOMAIN req :
          /\ (Polling(req[r]) /\ req'[r] # req[r] /\ req'[r].pc = "listPods") =>
                req'[r].i > req[r].i
          /\ (Polling(req[r]) /\ req'[r].pc = "updateSession") => req'[r].i = req[r].i
          /\ (Polling(req[r]) /\ ~Polling(req'[r])) =>
                \/ req'[r].pc = "mint"
                \/ /\ req'[r].pc = "done"
                   /\ headersSent(res'[r])
                   /\ res'[r].status = 500
                   /\ res'[r].error = "Failed to start session. Please try again."]_vars
  /\ ((req["r1"].pc \notin {"idle", "done"}) ~> headersSent(res["r1"]))

\* the request was answered with the discovery-timeout error, its Job and its
\* sessions row in place
C30_Witness ==
  /\ req["r1"].pc = "done"
  /\ headersSent(res["r1"])
  /\ res["r1"].error = "Failed to start session. Please try again."
  /\ sessions[res["r1"].sessionId] # NoRow
  /\ \E job \in jobs : job.session = res["r1"].sessionId

\* C31: a sequence of upgrades presenting tokens of one key identifier causes
\* at most one fetch of the Controller's key set.
C31_AtMostOneFetch ==
  (/\ Ended(up["u1"]) /\ Ended(up["u2"])
   /\ Len(up["u1"].token) = 1 /\ IsJwt(up["u1"].token[1])
   /\ Len(up["u2"].token) = 1 /\ IsJwt(up["u2"].token[1])
   /\ JwtDecode(up["u1"].token[1]).kid = JwtDecode(up["u2"].token[1]).kid)
  => up["u1"].fetches + up["u2"].fetches <= 1

\* the step is the return of an INSERT or UPDATE statement of request r:
\* lines 232-235, 256-259 or 285-288 of the createSession handler
StatementReturned(r) ==
  \/ req[r].pc = "insertSession" /\ req'[r].pc = "listPods"
  \/ req[r].pc = "updateSession" /\ req'[r].pc = "mint" /\ req'[r].i = req[r].i
  \/ req[r].pc = "insertJti" /\ req'[r].pc = "done" /\ headersSent(res'[r]) /\ res'[r].status = 200

\* the rows of a table that are there before the step and gone after it
Purged(before, after) == {k \in DOMAIN before : before[k] # NoRow /\ after[k] = NoRow}

\* C32: when an INSERT or UPDATE on sessions or token_jti has returned, neither
\* table holds a row whose expires_at is earlier than the statement's time, and
\* every row that disappeared with the statement had such an expires_at.
C32_PurgeOnWrite ==
  [][(\E r \in DOMAIN req : StatementReturned(r)) =>
       /\ \A s \in DOMAIN sessions : sessions'[s] # NoRow => sessions'[s].expires_at >= now
       /\ \A j \in DOMAIN token_jti : token_jti'[j] # NoRow => token_jti'[j].expires_at >= now
       /\ \A s \in Purged(sessions, sessions') : sessions[s].expires_at < now
       /\ \A j \in Purged(token_jti, token_jti') : token_jti[j].expires_at < now]_vars

\* the UPDATE of the discovery loop returned after the session's row had
\* expired, and the row is gone
C32_Witness ==
  /\ req["r1"].pc = "mint"
  /\ req["r1"].sessionExpires < now
  /\ sessions[req["r1"].sessionId] = NoRow

\* the hostname and the command request r asked for
AskedHostname(r) == http[r].body.code_url.url.hostname
AskedCommand(r) == http[r].body.command
\* the handler of r has looked at the request
Handled(r) == req[r].pc # "idle"
\* the handler answered 400
Rejected(r) == headersSent(res[r]) /\ res[r].status = 400

\* hostname is named by an entry: a plain entry it equals, or an entry *.base
\* where it is base or something followed by a dot and base
NamedBy(hostname, entry) ==
  IF Len(entry) >= 2 /\ entry[1] = "*" /\ entry[2] = "."
  THEN \E n \in 0..Len(hostname) :
         /\ SubSeq(hostname, n + 1, Len(hostname)) = SubSeq(entry, 3, Len(entry))
         /\ (n = 0 \/ hostname[n] = ".")
  ELSE hostname = entry

\* C33: a public https host passes the allowlist check iff an entry names it;
\* evilgithub.com is rejected under *.github.com.
C33_AllowlistMatch ==
  Handled("r1") =>
    LET named == \E k \in 1..Len(AllowedCodeDomains) :
                   NamedBy(AskedHostname("r1"), AllowedCodeDomains[k])
        refused == Rejected("r1") /\ res["r1"].error = "Domain is not in the allowlist"
    IN /\ refused <=> ~named
       /\ (AskedHostname("r1") = <<"e", "v", "i", "l">> \o Github
            /\ AllowedCodeDomains = << <<"*", ".">> \o Github >>) => refused

\* under *.github.com: raw.api.github.com was admitted and its Job submitted
C33_Witness ==
  /\ AllowedCodeDomains = << <<"*", ".">> \o Github >>
  /\ AskedHostname("r1") = <<"r", "a", "w", ".", "a", "p", "i", ".">> \o Github
  /\ \E job \in jobs : job.CODE_URL.url.hostname = AskedHostname("r1")

\* C34: a command of exactly 1000 characters without a forbidden pattern, in
\* a request that is valid otherwise, is admitted; a command of 1001 or more
\* characters is answered 400.
C34_CommandLengthLimit ==
  Handled("r1") =>
    /\ (/\ StrLength(AskedCommand("r1")) = 1000
         /\ ~HasDangerousSubstring(AskedCommand("r1").chars)
         /\ isAllowed(AskedHostname("r1")))
        => ~Rejected("r1")
    /\ StrLength(AskedCommand("r1")) >= 1001 => Rejected("r1")

\* a Job runs a command of exactly 1000 characters
C34_Witness ==
  /\ StrLength(AskedCommand("r1")) = 1000
  /\ \E job \in jobs : job.COMMAND = AskedCommand("r1")

\* C35: a step in which the terminal page is served, with or without a token
\* in the query, leaves the tables sessions and token_jti as they are.
C35_PageLeavesStore ==
  [][\A p \in Pages : http'[p] # http[p] => UNCHANGED <<sessions, token_jti>>]_vars

\* the page was loaded MaxLoads times with the issued token in the query, and
\* an upgrade presenting that token is proxied
C35_Witness ==
  /\ http["p1"].loads = MaxLoads
  /\ http["p1"].status = 200
  /\ Len(http["p1"].token) = 1
  /\ up["u1"].token = http["p1"].token
  /\ up["u1"].pc = "proxying"

\* the token_jti rows that reference session sid
JtiRowsOf(sid) == {j \in DOMAIN token_jti : token_jti[j] # NoRow /\ token_jti[j].session_id = sid}

\* C36: no session is ever referenced by more than one token_jti row, and at
\* most one upgrade attempt per session is at the proxy step, whatever tokens
\* the attempts present and however they interleave.
C36_OneAttachPerSession ==
  /\ \A sid \in DOMAIN sessions : Cardinality(JtiRowsOf(sid)) <= 1
  /\ \A u \in Ups, v \in Ups :
       (up[u].pc = "proxying" /\ up[v].pc = "proxying" /\ up[u].sessionId = up[v].sessionId)
         => u = v

\* the bodies the two limiters answer with
LimiterErrors ==
  { "Too many sessions created. Please wait before creating more.",
    "Server is under heavy load. Please try again later." }

\* C37: a POST /api/sessions request answered 429 carries a limiter's body
\* whatever its Authorization header, its handler never runs, and there is no
\* Job, no sessions row and no token_jti row of it.
C37_LimitedHasNoEffect ==
  \A r \in DOMAIN res :
    (headersSent(res[r]) /\ res[r].status = 429) =>
      /\ res[r].error \in LimiterErrors
      /\ res[r].sends = 1
      /\ req[r] = DoneReq
      /\ \A job \in jobs : job.session # UuidOf(r)
      /\ sessions[UuidOf(r)] = NoRow
      /\ token_jti[JtiOf(r)] = NoRow

\* a request with the right credential was answered 429
C37_Witness ==
  /\ headersSent(res["r1"]) /\ res["r1"].status = 429
  /\ http["r1"] # NoRequest
  /\ requireApiKey(http["r1"].authorization).pass

\* C38: the container of a Job whose command the Controller accepted is never
\* stopped by the boot script before it fetches the code.
C38_AdmittedCommandBoots ==
  \A job \in jobs : job.status \in {"Pending", "Running"}

\* C39: the process exits with code 0 only; the pool stops taking queries and
\* the process exits only once the server has finished closing; so while a
\* request is in flight the pool is open and the process runs.
C39_ShutdownAfterServerClose ==
  /\ proc.exited => proc.code = 0
  /\ (proc.pool # "open" \/ proc.exited) => proc.server = "closed"
  /\ \A r \in DOMAIN req : InFlight(r) => (proc.pool = "open" /\ ~proc.exited)

====
